---- MODULE Spec2Model ----
(***************************************************************************)
(* estuary-rpc streaming transport: the WebSocket frame codec, the Stream  *)
(* and Duplex listener fan-out, the server connection driver (wsEndpoint)   *)
(* and the client connection driver (createWsEndpoint).  JS indices are    *)
(* 0-based; TLA+ sequences are 1-based, so data[i] of the source is        *)
(* data[i + 1] here.                                                       *)
(***************************************************************************)
EXTENDS Integers, Sequences, FiniteSets, TLC

VARIABLES
  \* ---- frame codec harness (SpecCodec)
  cPc,        \* "frame" | "encoded" | "decoded"
  cFrame,     \* the DataFrame handed to sendDataFrame
  cWire,      \* the bytes sendDataFrame wrote to the socket
  cParsed,    \* the result of parseDataFrame on cWire
  \* ---- Stream / Duplex
  listeners,  \* stream id -> Stream.listeners, in registration order
  view,       \* "server" / "client" -> "open" | "sealed": the Duplex property
  nMapped,    \* number of streams created by mapOut / mapIn
  nOps,       \* number of operations performed so far
  \* ---- history of the Stream / Duplex operations
  evLog,      \* the write / error / close events issued, in order, each
              \* with whether the call threw, the listeners of its stream
              \* and the views sealed when it was issued
  callLog,    \* every listener callback invocation, in order
  lastOp,     \* the last call if it went through a sealed view, else NoOp
  sealedEver, \* view -> closeServer() / closeClient() has been called
  \* ---- server connection (wsEndpoint)
  transport,  \* the endpoint's transport: "json" | "binary" | "text"
  authOk,     \* isAuthenticated's first result (proceed)
  hPc,        \* "upgrade" (upgrade event received) | "lookup" (101 written) |
              \* "notfound" (no endpoint for the url) |
              \* "middleware" (the loop awaits one) | "handler" (the endpoint
              \* was invoked) | "stopped" (a middleware resolved falsy) |
              \* "rejected" (a middleware threw)
  mwLog,      \* the middlewares invoked so far, in order, and what each
              \* resolved to
  sockState,  \* "open" | "ended" (socket.end() called) | "closed" (close
              \* event) | "crashed" (an exception left an event handler)
  strBuffer,  \* the text accumulator
  bufOffset,  \* the binary offset
  buffer,     \* the binary buffer
  sockOut,    \* the socket.write calls, in order: the bytes of each
  \* ---- history of the connection
  rxLog,      \* the frames received, with the lengths of evLog and sockOut
              \* and the accumulators before and after each
  txLog,      \* the messages the handler wrote, likewise
  sockLog,    \* the socket's close and error events, likewise
  \* ---- several server connections (SpecConns)
  conns,      \* connection -> its accumulators, socket writes, inbound
              \* writes and the frames it received
  \* ---- client connection (createWsEndpoint)
  wsTransport, \* the endpoint's transport: "json" | "text"
  wsState,    \* the WebSocket: "connecting" | "open" | "closed"
  mPc,        \* the connection call: "awaiting" | "resolved" | "returned"
  nResolved,  \* number of calls of the promise's resolve
  wsSent,     \* the ws.send calls, in order: the data of each
  wsLog       \* the socket events and the writes through duplex.client, in
              \* order, with wsState and the length of wsSent around each

codecVars == <<cPc, cFrame, cWire, cParsed>>

duplexVars ==
  <<listeners, view, nMapped, nOps, evLog, callLog, lastOp, sealedEver>>

serverVars ==
  <<transport, authOk, hPc, mwLog, sockState, strBuffer, bufOffset, buffer, sockOut,
    rxLog, txLog, sockLog>>

clientVars == <<wsTransport, wsState, mPc, nResolved, wsSent, wsLog>>

vars ==
  <<cPc, cFrame, cWire, cParsed, listeners, view, nMapped, nOps, evLog,
    callLog, lastOp, sealedEver, transport, hPc, sockState, strBuffer,
    bufOffset, buffer, sockOut, rxLog, txLog, mwLog, sockLog, authOk, conns,
    wsTransport, wsState, mPc, nResolved, wsSent, wsLog>>

(***************************************************************************)
(* Bounds of the model                                                     *)
(***************************************************************************)
MaxSeed == 1          \* payload fill patterns 0..MaxSeed
MaxOps == 4           \* Stream / Duplex operations per behaviour
NumMiddlewares == 3   \* length of serverOpts.middlewares

(***************************************************************************)
(* Program constants                                                       *)
(***************************************************************************)
OP_CONTINUATION == 0
OP_TEXT == 1
OP_BINARY == 2
OP_CONNECTION_CLOSE == 8
OP_PING == 9
OP_PONG == 10
OP_UNDEFINED == 255
LEN7_16 == 126        \* 7-bit length marker: 16-bit extended length follows
LEN7_64 == 127        \* 7-bit length marker: 64-bit extended length follows
LEN16_LIMIT == 65536  \* sendDataFrame: first length needing the 127 marker

KnownOpCodes ==
  {OP_CONTINUATION, OP_TEXT, OP_BINARY, OP_CONNECTION_CLOSE, OP_PING, OP_PONG,
   OP_UNDEFINED}

(***************************************************************************)
(* Bytes and bit operations                                                *)
(***************************************************************************)
Min(a, b) == IF a < b THEN a ELSE b

Max(a, b) == IF a < b THEN b ELSE a

RECURSIVE BitOp(_, _, _, _)
\* bitwise op over the n low bits: kind "xor" | "or"
BitOp(kind, a, b, n) ==
  IF n = 0 THEN 0
  ELSE LET x == a % 2
           y == b % 2
           bit == IF kind = "xor" THEN (x + y) % 2
                  ELSE IF x + y > 0 THEN 1 ELSE 0
       IN bit + 2 * BitOp(kind, a \div 2, b \div 2, n - 1)

Xor8(a, b) == BitOp("xor", a, b, 8)

Or8(a, b) == BitOp("or", a, b, 8)

\* data[i] used in a bit operation: an index past the end reads undefined,
\* which the bit operators coerce to 0
ByteAt(data, i) == IF i >= 0 /\ i < Len(data) THEN data[i + 1] ELSE 0

\* data.subarray(from, to): both ends clamped to the length
Subarray(data, from, to) ==
  LET f == Min(Max(from, 0), Len(data))
      t == Min(Max(to, 0), Len(data))
  IN IF t <= f THEN << >> ELSE SubSeq(data, f + 1, t)

\* a position-dependent payload of n bytes
FillPayload(n, seed) == [i \in 1..n |-> (i * 7 + seed * 13) % 256]

(***************************************************************************)
(* Frame codec: findPayloadLen / parseDataFrame / sendDataFrame            *)
(***************************************************************************)
\* Largest length the model represents exactly; a decoded 64-bit length above
\* it is kept as HugeLen with lenOverflow set (it exceeds any chunk length).
HugeLen == 1073741824

\* findPayloadLen(data, offset) -> [len, width, err, overflow]
\*   err: readUInt16BE / readBigUInt64BE out of range (RangeError), or the
\*        value above Number.MAX_SAFE_INTEGER ("Can't handle that kind of payload")
FindPayloadLen(data, offset) ==
  LET first == ByteAt(data, offset) % 128
  IN IF first = LEN7_16
     THEN [len |-> ByteAt(data, offset + 1) * 256 + ByteAt(data, offset + 2),
           width |-> 2,
           err |-> offset + 3 > Len(data),
           overflow |-> FALSE]
     ELSE IF first = LEN7_64
     THEN LET b(k) == ByteAt(data, offset + 1 + k)
              small == b(0) = 0 /\ b(1) = 0 /\ b(2) = 0 /\ b(3) = 0 /\ b(4) < 128
              unsafe == b(0) > 0 \/ b(1) >= 32   \* val >= 2^53
          IN [len |-> IF small
                      THEN b(4) * 16777216 + b(5) * 65536 + b(6) * 256 + b(7)
                      ELSE HugeLen,
              width |-> 4,
              err |-> offset + 9 > Len(data) \/ unsafe,
              overflow |-> ~small]
     ELSE [len |-> first, width |-> 1, err |-> FALSE, overflow |-> FALSE]

\* not the program: a parser taking the rest of the chunk as the payload
ParseDataFrameRest(data) ==
  LET b0 == ByteAt(data, 0)
      opCodeInt == b0 % 16
      hasMask == (ByteAt(data, 1) \div 128) % 2 = 1
      pl == FindPayloadLen(data, 1)
      offMask == 1 + pl.width
      mask == IF hasMask THEN Subarray(data, offMask, offMask + 4) ELSE << >>
      raw == Subarray(data, offMask + (IF hasMask THEN 4 ELSE 0), Len(data))
  IN [err |-> pl.err, fin |-> (b0 \div 128) % 2 = 1,
      opCode |-> IF opCodeInt \in KnownOpCodes THEN opCodeInt ELSE OP_UNDEFINED,
      hasMask |-> hasMask, payloadLen |-> Len(raw), lenOverflow |-> pl.overflow,
      mask |-> mask,
      payload |-> IF hasMask
                  THEN [i \in 1..Len(raw) |->
                          Xor8(raw[i], ByteAt(mask, (i - 1) % 4))]
                  ELSE raw]

\* parseDataFrame(data)
ParseDataFrame(data) ==
  LET b0 == ByteAt(data, 0)
      fin == (b0 \div 128) % 2 = 1
      opCodeInt == b0 % 16
      opCode == IF opCodeInt \in KnownOpCodes THEN opCodeInt ELSE OP_UNDEFINED
      hasMask == (ByteAt(data, 1) \div 128) % 2 = 1
      pl == FindPayloadLen(data, 1)
      offMask == 1 + pl.width
      mask == IF hasMask THEN Subarray(data, offMask, offMask + 4) ELSE << >>
      offPay == offMask + (IF hasMask THEN 4 ELSE 0)
      raw == Subarray(data, offPay, offPay + pl.len)
      payload == IF hasMask
                 THEN [i \in 1..Len(raw) |->
                         Xor8(raw[i], ByteAt(mask, (i - 1) % 4))]
                 ELSE raw
  IN [err |-> pl.err, fin |-> fin, opCode |-> opCode, hasMask |-> hasMask,
      payloadLen |-> pl.len, lenOverflow |-> pl.overflow, mask |-> mask,
      payload |-> payload]

\* the value of cParsed before any frame was parsed
NoParse ==
  [err |-> FALSE, fin |-> FALSE, opCode |-> OP_UNDEFINED, hasMask |-> FALSE,
   payloadLen |-> 0, lenOverflow |-> FALSE, mask |-> << >>, payload |-> << >>]

\* the sizeBytes array of sendDataFrame
SizeBytes(n) ==
  IF n < LEN7_16 THEN <<n>>
  ELSE IF n < LEN16_LIMIT THEN <<LEN7_16, n \div 256, n % 256>>
  ELSE <<LEN7_64, (n \div 16777216) % 256, (n \div 65536) % 256,
         (n \div 256) % 256>>

\* not the program: an encoder that leaves the fin bit clear
SendDataFrameNoFin(df) == <<df.opCode>> \o SizeBytes(Len(df.payload)) \o df.payload

\* sendDataFrame(socket, df): the bytes handed to socket.write
SendDataFrame(df) ==
  LET sizeBytes == SizeBytes(Len(df.payload))
  IN <<Or8((IF df.fin THEN 128 ELSE 0), df.opCode)>> \o sizeBytes \o df.payload

(***************************************************************************)
(* Stream: listener entries                                                *)
(*   kind "app"    an application StreamListener object, identified by id;  *)
(*                 only # "" is the one-callback object built by on()       *)
(*   kind "fwd"    the listener mapOut / mapIn installs, forwarding to `to` *)
(*   kind "driver" the listener the server driver installs on toClient      *)
(*   kind "wsdriver" the listener the client driver installs on toServer    *)
(* via / at are history tags (the view the registration was made through    *)
(* and the number of events issued before it); no operation reads them.     *)
(***************************************************************************)
EventKinds == {"message", "error", "close"}

Views == {"server", "client"}

Opposite(v) == IF v = "server" THEN "client" ELSE "server"

MappedId(k) == "m" \o ToString(k)

\* "stream" is a Stream on its own; toServer / toClient belong to the Duplex
StreamIds ==
  {"stream", "toServer", "toClient"} \cup {MappedId(k) : k \in 1..MaxOps}

AppListener(id) ==
  [kind |-> "app", id |-> id, only |-> "", to |-> "", fn |-> "", via |-> "",
   at |-> 0]

\* the object on(eventType, fn) builds: { onMessage: fn } etc.
OnListener(id, ev) == [AppListener(id) EXCEPT !.only = ev]

\* not the program: a mapOut / mapIn listener forwarding the message as it is
FwdListenerPlain(to, fn) ==
  [kind |-> "fwd", id |-> 0, only |-> "", to |-> to, fn |-> "", via |-> "",
   at |-> 0]

\* the listener mapOut / mapIn builds
FwdListener(to, fn) ==
  [kind |-> "fwd", id |-> 0, only |-> "", to |-> to, fn |-> fn, via |-> "",
   at |-> 0]

Tagged(l, v, n) == [l EXCEPT !.via = v, !.at = n]

\* l == listener (reference equality): an object built inside on() is
\* referenced by nobody else
SameObject(a, b) ==
  a.kind = "app" /\ b.kind = "app" /\ a.only = "" /\ b.only = "" /\ a.id = b.id

\* application callbacks: listener objects 3, 6, ... define onMessage alone,
\* the callbacks of listener objects 2, 5, ... throw
HasCallback(l, ev) ==
  IF l.kind = "app"
  THEN (l.only = "" \/ l.only = ev) /\ (l.id % 3 # 0 \/ ev = "message")
  ELSE TRUE

CallbackThrows(l) == l.kind = "app" /\ l.id % 3 = 2

\* the conversion functions handed to mapOut / mapIn
ApplyFn(fn, x) == IF fn = "f" THEN x + 10 ELSE IF fn = "g" THEN x + 100 ELSE x

Call(l, s, ev, val, ctx) ==
  [lid |-> l.id, only |-> l.only, kind |-> l.kind, s |-> s, ev |-> ev,
   val |-> val, via |-> l.via, at |-> l.at, n |-> ctx.n, from |-> ctx.from]

NoCalls == [calls |-> << >>, threw |-> FALSE]

RECURSIVE Dispatch(_, _, _, _, _, _)
RECURSIVE Invoke(_, _, _, _, _, _)
\* l.onMessage && l.onMessage(t), l.onError && l.onError(err), l.onClose?.()
\* A forwarder's onMessage writes fn(t) to its target stream; its onError and
\* onClose are the target's unbound error / close methods, called with the
\* listener object as `this`, whose `listeners` is undefined: they throw.
Invoke(ls, l, s, ev, val, ctx) ==
  IF ~HasCallback(l, ev) THEN NoCalls
  ELSE IF l.kind = "fwd"
  THEN IF ev = "message"
       THEN Dispatch(ls, l.to, ev, ApplyFn(l.fn, val), ctx, 1)
       ELSE [calls |-> << >>, threw |-> TRUE]
  ELSE [calls |-> <<Call(l, s, ev, val, ctx)>>, threw |-> CallbackThrows(l)]

\* not the program: a fan-out visiting the newest registration first
RECURSIVE DispatchNewestFirst(_, _, _, _, _, _)
DispatchNewestFirst(ls, s, ev, val, ctx, i) ==
  IF i > Len(ls[s]) THEN NoCalls
  ELSE LET rest == DispatchNewestFirst(ls, s, ev, val, ctx, i + 1)
       IN IF rest.threw THEN rest
          ELSE LET one == Invoke(ls, ls[s][i], s, ev, val, ctx)
               IN [calls |-> rest.calls \o one.calls, threw |-> one.threw]

\* not the program: a fan-out that swallows what a callback throws
DispatchIsolated(ls, s, ev, val, ctx, i) ==
  IF i > Len(ls[s]) THEN NoCalls
  ELSE LET one == Invoke(ls, ls[s][i], s, ev, val, ctx)
           rest == Dispatch(ls, s, ev, val, ctx, i + 1)
       IN [calls |-> one.calls \o rest.calls, threw |-> FALSE]

\* Stream.write / error / close: this.listeners.forEach(...) from index i; an
\* exception thrown by a callback leaves forEach
Dispatch(ls, s, ev, val, ctx, i) ==
  IF i > Len(ls[s]) THEN NoCalls
  ELSE LET one == Invoke(ls, ls[s][i], s, ev, val, ctx)
       IN IF one.threw THEN one
          ELSE LET rest == Dispatch(ls, s, ev, val, ctx, i + 1)
               IN [calls |-> one.calls \o rest.calls, threw |-> rest.threw]

\* not the program: an addListener replaying the past events to the listener
RECURSIVE ReplayTo(_, _, _, _)
ReplayTo(l, s, log, i) ==
  IF i > Len(log) THEN << >>
  ELSE (IF log[i].s = s /\ HasCallback(l, log[i].ev)
        THEN <<Call(l, s, log[i].ev, log[i].val, [n |-> i, from |-> log[i].from])>>
        ELSE << >>) \o ReplayTo(l, s, log, i + 1)

StreamAddListenerReplay(ls, s, l) ==
  [listeners |-> [ls EXCEPT ![s] = Append(@, l)],
   calls |-> ReplayTo(l, s, evLog, 1)]

\* Stream.addListener: this.listeners.push(listener); no callback is invoked
StreamAddListener(ls, s, l) ==
  [listeners |-> [ls EXCEPT ![s] = Append(@, l)], calls |-> << >>]

\* not the program: a removeListener dropping the first registration only
StreamRemoveListenerFirst(ls, s, l) ==
  LET hits == {i \in 1..Len(ls[s]) : SameObject(ls[s][i], l)}
  IN IF hits = {} THEN ls
     ELSE LET k == CHOOSE i \in hits : \A j \in hits : i <= j
          IN [ls EXCEPT ![s] = SubSeq(@, 1, k - 1) \o SubSeq(@, k + 1, Len(@))]

\* Stream.removeListener: this.listeners.filter((l) => l != listener)
StreamRemoveListener(ls, s, l) ==
  [ls EXCEPT ![s] = SelectSeq(@, LAMBDA x : ~SameObject(x, l))]

(***************************************************************************)
(* Duplex: the two views and their seals                                   *)
(***************************************************************************)
\* not the program: registrations going to the stream the view writes to
ReadStreamCrossed(v) == IF v = "server" THEN "toClient" ELSE "toServer"

\* addListener / removeListener / on / mapIn of a view
ReadStream(v) == IF v = "server" THEN "toServer" ELSE "toClient"

\* write / error / close / mapOut of a view
WriteStream(v) == IF v = "server" THEN "toClient" ELSE "toServer"

\* not the program: a closeClient that rebuilds the server view
CloseClientRebuild(vw) == [server |-> "open", client |-> "sealed"]

\* closeServer(): this.server = { ...CLOSED_IN_STREAM, ...CLOSED_OUT_STREAM }
CloseServerView(vw) == [vw EXCEPT !["server"] = "sealed"]

\* not the program: a closeClient that leaves the client view as it is
CloseClientViewSkipped(vw) == vw

\* closeClient(): this.client = { ...CLOSED_IN_STREAM, ...CLOSED_OUT_STREAM }
CloseClientView(vw) == [vw EXCEPT !["client"] = "sealed"]

\* lastOp: when the last call went through a sealed view and threw CLOSED_FN's
\* "Closed Out Stream", the method called and the view
NoOp == [op |-> "", view |-> "", closed |-> FALSE]

EvCount == Len(evLog)

DuplexIdle ==
  /\ listeners = [s \in StreamIds |-> << >>]
  /\ view = [v \in Views |-> "open"]
  /\ nMapped = 0
  /\ nOps = 0
  /\ evLog = << >>
  /\ callLog = << >>
  /\ lastOp = NoOp
  /\ sealedEver = [v \in Views |-> FALSE]

\* one more operation
Step ==
  /\ nOps < MaxOps
  /\ nOps' = nOps + 1

\* CLOSED_FN: every method of a sealed view throws "Closed Out Stream"
SealedCall(op, v) ==
  /\ Step
  /\ view[v] = "sealed"
  /\ lastOp' = [op |-> op, view |-> v, closed |-> TRUE]
  /\ UNCHANGED <<listeners, view, nMapped, evLog, callLog, sealedEver>>

\* stream s .write(msg) / .error(err) / .close(), reached through view v
\* (v = "": called on the Stream itself)
StreamEvent(v, s, ev, val) ==
  /\ Step
  /\ LET ctx == [n |-> EvCount + 1, from |-> v]
         r == Dispatch(listeners, s, ev, val, ctx, 1)
     IN /\ callLog' = callLog \o r.calls
        /\ evLog' = Append(evLog, [s |-> s, ev |-> ev, val |-> val, from |-> v,
                                   threw |-> r.threw, regs |-> listeners[s],
                                   sealed |-> {w \in Views : sealedEver[w]}])
  /\ lastOp' = NoOp
  /\ UNCHANGED <<listeners, view, nMapped, sealedEver>>

\* stream s .addListener(l), reached through view v
Register(op, v, s, l) ==
  /\ Step
  /\ LET r == StreamAddListener(listeners, s, Tagged(l, v, EvCount))
     IN /\ listeners' = r.listeners
        /\ callLog' = callLog \o r.calls
  /\ lastOp' = NoOp
  /\ UNCHANGED <<view, evLog, sealedEver>>

\* stream s .removeListener(l), reached through view v
Unregister(v, s, l) ==
  /\ Step
  /\ listeners' = StreamRemoveListener(listeners, s, l)
  /\ lastOp' = NoOp
  /\ UNCHANGED <<view, nMapped, evLog, callLog, sealedEver>>

\* duplex.<v>.write(msg) / error(err) / close()
ViewEvent(v, ev, val) ==
  \/ SealedCall(ev, v)
  \/ /\ view[v] = "open"
     /\ StreamEvent(v, WriteStream(v), ev, val)

\* duplex.<v>.addListener(l)
ViewAddListener(v, id) ==
  \/ SealedCall("addListener", v)
  \/ /\ view[v] = "open"
     /\ Register("addListener", v, ReadStream(v), AppListener(id))
     /\ UNCHANGED nMapped

\* duplex.<v>.on(eventType, fn)
ViewOn(v, ev, id) ==
  \/ SealedCall("on", v)
  \/ /\ view[v] = "open"
     /\ Register("on", v, ReadStream(v), OnListener(id, ev))
     /\ UNCHANGED nMapped

\* duplex.<v>.removeListener(l)
ViewRemoveListener(v, id) ==
  \/ SealedCall("removeListener", v)
  \/ /\ view[v] = "open"
     /\ Unregister(v, ReadStream(v), AppListener(id))

\* duplex.<v>.mapOut(fn): a new stream, written to whenever the view's write
\* stream is written to
ViewMapOut(v) ==
  \/ SealedCall("mapOut", v)
  \/ /\ view[v] = "open"
     /\ nMapped' = nMapped + 1
     /\ Register("mapOut", v, WriteStream(v), FwdListener(MappedId(nMapped + 1), "f"))

\* duplex.<v>.mapIn(fn): a new stream that writes to the view's read stream
ViewMapIn(v) ==
  \/ SealedCall("mapIn", v)
  \/ /\ view[v] = "open"
     /\ nMapped' = nMapped + 1
     /\ Register("mapIn", v, MappedId(nMapped + 1), FwdListener(ReadStream(v), "g"))

CloseServer ==
  /\ Step
  /\ view' = CloseServerView(view)
  /\ sealedEver' = [sealedEver EXCEPT !["server"] = TRUE]
  /\ lastOp' = NoOp
  /\ UNCHANGED <<listeners, nMapped, evLog, callLog>>

CloseClient ==
  /\ Step
  /\ view' = CloseClientView(view)
  /\ sealedEver' = [sealedEver EXCEPT !["client"] = TRUE]
  /\ lastOp' = NoOp
  /\ UNCHANGED <<listeners, nMapped, evLog, callLog>>

\* inputs: the application's listener objects (1 has the three callbacks, 2
\* has them and they throw, 3 has onMessage alone), the callbacks it hands to
\* on(), and the messages / errors it sends
ListenerIds == {1, 2, 3}

OnFnIds == {1}

Msgs == {1, 2}

EventVal(ev, x) == IF ev = "close" THEN 0 ELSE x

(***************************************************************************)
(* Text: strings are sequences of code points, byte strings sequences of   *)
(* 0..255.  Application values (what JSON.parse returns and what the       *)
(* handler writes) are                                                     *)
(*   [t |-> "str", v |-> code points, n |-> 0]   a string                  *)
(*   [t |-> "rep", v |-> <<c>>, n |-> k]         the string of k chars c   *)
(*   [t |-> "num", v |-> << >>, n |-> k]         the integer k >= 0        *)
(*   [t |-> "bin", v |-> bytes, n |-> size]      a Uint8Array of `size`    *)
(*                                                bytes: v, then zeros     *)
(***************************************************************************)
REPLACEMENT == 65533  \* U+FFFD
BOM == 65279          \* U+FEFF
QUOTE == 34           \* the character "
BACKSLASH == 92

StrVal(chars) == [t |-> "str", v |-> chars, n |-> 0]

RepVal(c, k) == [t |-> "rep", v |-> <<c>>, n |-> k]

NumVal(k) == [t |-> "num", v |-> << >>, n |-> k]

BinVal(bytes, size) == [t |-> "bin", v |-> bytes, n |-> size]

\* the characters of a string value
StrChars(val) == IF val.t = "rep" THEN [i \in 1..val.n |-> val.v[1]] ELSE val.v

RECURSIVE UTF8Scan(_, _, _, _, _, _)
\* the UTF-8 decoder of TextDecoder (WHATWG Encoding, fatal = false) from
\* byte i on: cp the code point so far, need the continuation bytes missing,
\* lo..hi the range allowed for the next one
UTF8Scan(b, i, cp, need, lo, hi) ==
  IF i > Len(b) THEN (IF need > 0 THEN <<REPLACEMENT>> ELSE << >>)
  ELSE LET x == b[i]
       IN IF need = 0
          THEN IF x <= 127 THEN <<x>> \o UTF8Scan(b, i + 1, 0, 0, 128, 191)
               ELSE IF x \in 194..223
               THEN UTF8Scan(b, i + 1, x % 32, 1, 128, 191)
               ELSE IF x \in 224..239
               THEN UTF8Scan(b, i + 1, x % 16, 2,
                             IF x = 224 THEN 160 ELSE 128,
                             IF x = 237 THEN 159 ELSE 191)
               ELSE IF x \in 240..244
               THEN UTF8Scan(b, i + 1, x % 8, 3,
                             IF x = 240 THEN 144 ELSE 128,
                             IF x = 244 THEN 143 ELSE 191)
               ELSE <<REPLACEMENT>> \o UTF8Scan(b, i + 1, 0, 0, 128, 191)
          ELSE IF x < lo \/ x > hi
          THEN <<REPLACEMENT>> \o UTF8Scan(b, i, 0, 0, 128, 191)
          ELSE IF need = 1
          THEN <<cp * 64 + (x % 64)>> \o UTF8Scan(b, i + 1, 0, 0, 128, 191)
          ELSE UTF8Scan(b, i + 1, cp * 64 + (x % 64), need - 1, 128, 191)

\* decoder.decode(bytes): one call without the stream option, so the decoder
\* is flushed at the end of the bytes; a leading byte order mark is dropped
TextDecode(bytes) ==
  LET s == UTF8Scan(bytes, 1, 0, 0, 128, 191)
  IN IF Len(s) > 0 /\ s[1] = BOM THEN Tail(s) ELSE s

\* the UTF-8 bytes of one code point
EncodeChar(c) ==
  IF c < 128 THEN <<c>>
  ELSE IF c < 2048 THEN <<192 + (c \div 64), 128 + (c % 64)>>
  ELSE IF c < 65536
  THEN <<224 + (c \div 4096), 128 + ((c \div 64) % 64), 128 + (c % 64)>>
  ELSE <<240 + (c \div 262144), 128 + ((c \div 4096) % 64),
         128 + ((c \div 64) % 64), 128 + (c % 64)>>

RECURSIVE EncodeRange(_, _, _)
\* the UTF-8 bytes of s[lo..hi], by halves
EncodeRange(s, lo, hi) ==
  IF lo > hi THEN << >>
  ELSE IF \A i \in lo..hi : s[i] < 128 THEN SubSeq(s, lo, hi)
  ELSE IF lo = hi THEN EncodeChar(s[lo])
  ELSE LET mid == (lo + hi) \div 2
       IN EncodeRange(s, lo, mid) \o EncodeRange(s, mid + 1, hi)

\* encoder.encode(s)
TextEncode(s) == EncodeRange(s, 1, Len(s))

RECURSIVE DigitsValue(_, _)
DigitsValue(s, k) == IF k = 0 THEN 0 ELSE DigitsValue(s, k - 1) * 10 + (s[k] - 48)

RECURSIVE Digits(_)
Digits(k) == IF k < 10 THEN <<48 + k>> ELSE Digits(k \div 10) \o <<48 + (k % 10)>>

\* JSON.parse(s) for the texts the model feeds it: a non-negative integer
\* literal, or a string literal without escape sequences; any other text of
\* the model's alphabet is not JSON and makes JSON.parse throw (err)
JSONParse(s) ==
  LET n == Len(s)
      isNum == /\ n > 0
               /\ \A i \in 1..n : s[i] \in 48..57
               /\ (n > 1 => s[1] # 48)
      isStr == /\ n >= 2
               /\ s[1] = QUOTE
               /\ s[n] = QUOTE
               /\ \A i \in 2..(n - 1) : s[i] >= 32 /\ s[i] \notin {QUOTE, BACKSLASH}
  IN IF isNum THEN [err |-> FALSE, val |-> NumVal(DigitsValue(s, n))]
     ELSE IF isStr THEN [err |-> FALSE, val |-> StrVal(SubSeq(s, 2, n - 1))]
     ELSE [err |-> TRUE, val |-> NumVal(0)]

\* JSON.stringify(val) for integers and for strings; the strings the model
\* writes hold no character JSON.stringify escapes
JSONStringify(val) ==
  IF val.t = "num" THEN Digits(val.n)
  ELSE <<QUOTE>> \o StrChars(val) \o <<QUOTE>>

(***************************************************************************)
(* Server connection driver: wsEndpoint                                    *)
(***************************************************************************)
INIT_BUFFER_SIZE == 2048

\* the transports of the model: the default JSON transport, and a custom
\* binary and a custom text transport (TransportType.UNKNOWN) whose codecs
\* are the samples below
ServerTransports == {"json", "binary"}

IsCustom(tr) == tr \in {"binary", "text"}

\* sample transport.encode.res: a binary one and a text one
CustomEncodeRes(tr, res) ==
  IF tr = "binary" THEN TextEncode(JSONStringify(res)) ELSE JSONStringify(res)

\* sample transport.decode.req: hands back what it is given, and throws on a
\* text holding an exclamation mark
CustomDecodeReq(x) ==
  [err |-> x.t = "str" /\ \E i \in 1..Len(x.v) : x.v[i] = 33, val |-> x]

\* the listener wsEndpoint registers through the client view
DriverListener ==
  [kind |-> "driver", id |-> 0, only |-> "", to |-> "", fn |-> "",
   via |-> "client", at |-> 0]

\* new Uint8Array(2048): size, and the bytes up to the last non-zero one
EmptyBuffer == [size |-> INIT_BUFFER_SIZE, data |-> << >>]

RECURSIVE TrimZeros(_)
TrimZeros(d) ==
  IF Len(d) > 0 /\ d[Len(d)] = 0 THEN TrimZeros(SubSeq(d, 1, Len(d) - 1)) ELSE d

\* buffer.set(payload, off)
BufferSet(buf, payload, off) ==
  LET d == buf.data
      end == off + Len(payload)
      padded == IF end > Len(d) THEN d \o [i \in 1..(end - Len(d)) |-> 0] ELSE d
      new == SubSeq(padded, 1, off) \o payload
               \o SubSeq(padded, end + 1, Len(padded))
  IN [buf EXCEPT !.data = TrimZeros(new)]

RECURSIVE GrownSize(_, _)
\* while (payloadLen + bufOffset > newSize) newSize *= 2
GrownSize(size, need) == IF need > size THEN GrownSize(size * 2, need) ELSE size

\* not the program: a buffer growing by one doubling
BufferGrowOnce(buf, need) ==
  IF need > buf.size THEN [buf EXCEPT !.size = buf.size * 2] ELSE buf

\* the growth of the binary buffer: a new array of the doubled size holding
\* the old bytes
BufferGrow(buf, need) ==
  IF need > buf.size THEN [buf EXCEPT !.size = GrownSize(buf.size * 2, need)]
  ELSE buf

SendTextFrame(s) ==
  SendDataFrame([fin |-> TRUE, opCode |-> OP_TEXT, payload |-> TextEncode(s)])

SendBinaryFrame(bytes) ==
  SendDataFrame([fin |-> TRUE, opCode |-> OP_BINARY, payload |-> bytes])

SendCloseFrame(bytes) ==
  SendDataFrame([fin |-> TRUE, opCode |-> OP_CONNECTION_CLOSE, payload |-> bytes])

\* sendPongFrame(socket, ping): { ...ping, opCode: PONG }
SendPongFrame(ping) == SendDataFrame([ping EXCEPT !.opCode = OP_PONG])

\* sendRes(res, socket): the bytes written to the socket
SendRes(tr, res) ==
  IF IsCustom(tr)
  THEN IF tr = "binary" THEN SendBinaryFrame(CustomEncodeRes(tr, res))
       ELSE SendTextFrame(CustomEncodeRes(tr, res))
  ELSE SendTextFrame(JSONStringify(res))

\* the socket writes made by the driver's listener for the callback
\* invocations `calls`: onMessage -> sendRes, onError -> console.error,
\* onClose -> sendCloseFrame
RECURSIVE DriverWrites(_, _, _)
DriverWrites(tr, calls, i) ==
  IF i > Len(calls) THEN << >>
  ELSE (IF calls[i].kind # "driver" THEN << >>
        ELSE IF calls[i].ev = "message" THEN <<SendRes(tr, calls[i].val)>>
        ELSE IF calls[i].ev = "close" THEN <<SendCloseFrame(<< >>)>>
        ELSE << >>) \o DriverWrites(tr, calls, i + 1)

\* not the program: a driver delivering after every fragment
MessageCompleteAlways(parsedFrame) == TRUE

\* if (parsedFrame.fin)
MessageComplete(parsedFrame) == parsedFrame.fin

\* what the data handler leaves changed when nothing happens
KeepConn(str, off, buf) ==
  [str |-> str, off |-> off, buf |-> buf, out |-> << >>, end |-> FALSE,
   write |-> << >>, crash |-> FALSE]

\* case WsOpCode.PING: sendPongFrame(socket, parsedFrame)
OnPing(keep, p) == [keep EXCEPT !.out = <<SendPongFrame(p)>>]

\* not the program: a driver answering a CLOSE frame with a CLOSE frame
OnConnectionCloseEcho(keep, p) ==
  [keep EXCEPT !.end = TRUE, !.out = <<SendCloseFrame(p.payload)>>]

\* case WsOpCode.CONNECTION_CLOSE: socket.end()
OnConnectionClose(keep, p) == [keep EXCEPT !.end = TRUE]

\* transport.decode.req(strBuffer) or JSON.parse(strBuffer)
DecodeText(tr, s) ==
  IF IsCustom(tr) THEN CustomDecodeReq(StrVal(s)) ELSE JSONParse(s)

\* not the program: a driver keeping the text of a message it could not decode
OnTextKeepFailed(tr, keep, p) ==
  LET s == keep.str \o TextDecode(p.payload)
      d == DecodeText(tr, s)
  IN IF MessageComplete(p)
     THEN [keep EXCEPT !.str = IF d.err THEN s ELSE << >>,
                       !.write = IF d.err THEN << >> ELSE <<d.val>>]
     ELSE [keep EXCEPT !.str = s]

\* case WsOpCode.TEXT: the catch block only logs, strBuffer = "" follows it
OnText(tr, keep, p) ==
  LET s == keep.str \o TextDecode(p.payload)
      d == DecodeText(tr, s)
  IN IF MessageComplete(p)
     THEN [keep EXCEPT !.str = << >>,
                       !.write = IF d.err THEN << >> ELSE <<d.val>>]
     ELSE [keep EXCEPT !.str = s]

\* case WsOpCode.BINARY: transport.decode.req is handed the whole buffer
OnBinary(tr, keep, p) ==
  IF p.lenOverflow THEN [keep EXCEPT !.crash = TRUE]
  ELSE LET grown == BufferGrow(keep.buf, p.payloadLen + keep.off)
           filled == BufferSet(grown, p.payload, keep.off)
           d == CustomDecodeReq(BinVal(filled.data, filled.size))
       IN IF MessageComplete(p)
          THEN [keep EXCEPT !.buf = filled, !.off = 0,
                  !.write = IF tr = "binary" /\ ~d.err
                            THEN <<d.val>> ELSE << >>]
          ELSE [keep EXCEPT !.buf = filled,
                            !.off = keep.off + p.payloadLen]

\* not the program: a driver ending the socket on an opcode it does not know
OnOtherOpCodeEnd(keep, p) == [keep EXCEPT !.end = TRUE]

\* not the program: a driver appending the payload of a frame of another
\* opcode to the text accumulator
OnOtherOpCodeAppend(keep, p) ==
  [keep EXCEPT !.str = @ \o TextDecode(p.payload)]

\* no case of the switch matches (CONTINUATION, PONG, UNDEFINED)
OnOtherOpCode(keep, p) == keep

\* socket.on("data"): the effect of one chunk whose parse is p on the text
\* accumulator str, the binary offset off and the binary buffer buf:
\*   out    the frames written to the socket
\*   end    socket.end() was called
\*   write  the value handed to client.write, if any
\*   crash  an exception left the handler
OnData(tr, p, str, off, buf) ==
  LET keep == KeepConn(str, off, buf)
  IN IF p.err THEN [keep EXCEPT !.crash = TRUE]
     ELSE IF p.opCode = OP_PING THEN OnPing(keep, p)
     ELSE IF p.opCode = OP_CONNECTION_CLOSE THEN OnConnectionClose(keep, p)
     ELSE IF p.opCode = OP_TEXT THEN OnText(tr, keep, p)
     ELSE IF p.opCode = OP_BINARY THEN OnBinary(tr, keep, p)
     ELSE OnOtherOpCode(keep, p)

\* the accumulators of the data handler
Accumulators == <<strBuffer, bufOffset, buffer>>

\* for (const middleware of serverOpts.middlewares): middleware i is invoked
\* and awaited
MiddlewareCall(i) == [i |-> i, res |-> "pending"]

\* the state of a connection at the end of wsEndpoint's synchronous part:
\* the Duplex built, the driver's listener registered through the client
\* view, the client view sealed, the first middleware invoked and awaited
ServerStart(tr) ==
  /\ transport = tr
  /\ hPc = "middleware"
  /\ authOk = TRUE
  /\ mwLog = <<MiddlewareCall(1)>>
  /\ sockLog = << >>
  /\ sockState = "open"
  /\ strBuffer = << >>
  /\ bufOffset = 0
  /\ buffer = EmptyBuffer
  /\ sockOut = << >>
  /\ rxLog = << >>
  /\ txLog = << >>
  /\ listeners = [s \in StreamIds |->
                    IF s = "toClient" THEN <<DriverListener>> ELSE << >>]
  /\ view = CloseClientView([v \in Views |-> "open"])
  /\ nMapped = 0
  /\ nOps = 0
  /\ evLog = << >>
  /\ callLog = << >>
  /\ lastOp = NoOp
  /\ sealedEver = [v \in Views |-> v = "client"]

\* no connection
ServerIdle ==
  /\ transport = "json"
  /\ hPc = "none"
  /\ authOk = TRUE
  /\ mwLog = << >>
  /\ sockLog = << >>
  /\ sockState = "none"
  /\ strBuffer = << >>
  /\ bufOffset = 0
  /\ buffer = EmptyBuffer
  /\ sockOut = << >>
  /\ rxLog = << >>
  /\ txLog = << >>

\* A frame as a WebSocket client puts it on the wire (RFC 6455): masked with
\* key, lengths 126..65535 as marker 126 and two big-endian bytes.
PeerChunk(f, key) ==
  LET n == Len(f.payload)
      lenBytes == IF n < 126 THEN <<128 + n>>
                  ELSE <<128 + 126, n \div 256, n % 256>>
      masked == [i \in 1..n |-> Xor8(f.payload[i], key[((i - 1) % 4) + 1])]
  IN <<(IF f.fin THEN 128 ELSE 0) + f.opCode>> \o lenBytes \o key \o masked

PeerKey == <<17, 34, 51, 68>>

PingLen == 126        \* payload length of the long PING

InFrame(fin, opCode, payload) ==
  [fin |-> fin, opCode |-> opCode, payload |-> payload]

\* the frames the peer sends, one per chunk: the JSON text "é" (bytes 34,
\* 195, 169, 34) split between and inside its characters, the JSON text 7,
\* a binary message in two fragments, two PINGs and a CLOSE
InFrames ==
  {InFrame(FALSE, OP_TEXT, <<34, 195>>),
   InFrame(TRUE, OP_TEXT, <<169, 34>>),
   InFrame(FALSE, OP_TEXT, <<34>>),
   InFrame(TRUE, OP_TEXT, <<195, 169, 34>>),
   InFrame(TRUE, OP_TEXT, <<55>>),
   InFrame(FALSE, OP_BINARY, <<1, 2>>),
   InFrame(TRUE, OP_BINARY, <<3>>),
   InFrame(TRUE, OP_PING, <<1, 2, 3>>),
   InFrame(TRUE, OP_PING, FillPayload(PingLen, 0)),
   InFrame(TRUE, OP_CONNECTION_CLOSE, << >>)}

OutFrames == {InFrame(TRUE, OP_PING, <<1, 2, 3>>)}

\* the frames of the frame-handling specification: the text 7 whole and as a
\* first fragment, the text ! (no JSON text, and refused by the sample
\* decoder), a binary message in two fragments, a CLOSE, and frames with the
\* opcodes 3 and 11 that WsOpCode does not hold
CtlFrames ==
  {InFrame(FALSE, OP_TEXT, <<55>>),
   InFrame(TRUE, OP_TEXT, <<55>>),
   InFrame(TRUE, OP_TEXT, <<33>>),
   InFrame(FALSE, OP_BINARY, <<1, 2>>),
   InFrame(TRUE, OP_BINARY, <<3>>),
   InFrame(TRUE, OP_CONNECTION_CLOSE, << >>),
   InFrame(TRUE, 3, <<1>>),
   InFrame(FALSE, 11, << >>)}

FragLen == 2040       \* payload length of the long binary fragment
LongFragLen == 5000   \* payload length of the longer binary fragment

\* the frames of the binary-buffer specification: binary fragments of 2,
\* FragLen and LongFragLen bytes and a binary frame ending the message
BufFrames ==
  {InFrame(FALSE, OP_BINARY, <<1, 2>>),
   InFrame(FALSE, OP_BINARY, FillPayload(FragLen, 1)),
   InFrame(FALSE, OP_BINARY, FillPayload(LongFragLen, 2)),
   InFrame(TRUE, OP_BINARY, <<3>>)}

\* frame f followed in the same chunk by frame g
TwoFrames(f, g) ==
  [fin |-> f.fin, opCode |-> f.opCode, payload |-> f.payload, then |-> g]

\* the frames that follow the first one in the chunk of f
FrameRest(f) == IF "then" \in DOMAIN f THEN <<f.then>> ELSE << >>

\* the chunks holding two frames: two text messages, the two fragments of a
\* text message and of a binary message, a PING and a text message
PairFrames ==
  {TwoFrames(InFrame(TRUE, OP_TEXT, <<55>>), InFrame(TRUE, OP_TEXT, <<55>>)),
   TwoFrames(InFrame(FALSE, OP_TEXT, <<55>>), InFrame(TRUE, OP_TEXT, <<55>>)),
   TwoFrames(InFrame(FALSE, OP_BINARY, <<1, 2>>), InFrame(TRUE, OP_BINARY, <<3>>)),
   TwoFrames(InFrame(TRUE, OP_PING, <<1, 2, 3>>), InFrame(TRUE, OP_TEXT, <<55>>))}

\* the frames of the chunk specification: the text 7 whole and as a first
\* fragment, CONTINUATION frames with and without fin, a binary message in
\* two fragments, and the chunks of two frames
ChunkFrames ==
  {InFrame(FALSE, OP_TEXT, <<55>>),
   InFrame(TRUE, OP_TEXT, <<55>>),
   InFrame(TRUE, OP_CONTINUATION, <<55>>),
   InFrame(FALSE, OP_CONTINUATION, <<55>>),
   InFrame(FALSE, OP_BINARY, <<1, 2>>),
   InFrame(TRUE, OP_BINARY, <<3>>)} \cup PairFrames

\* the bytes of the chunk of f
ChunkOf(f) ==
  IF "then" \in DOMAIN f
  THEN PeerChunk(f, PeerKey) \o PeerChunk(f.then, PeerKey)
  ELSE PeerChunk(f, PeerKey)

\* parseDataFrame(data) for the chunk of each frame of the model
ParsedChunk ==
  [f \in InFrames \cup OutFrames \cup CtlFrames \cup BufFrames
            \cup ChunkFrames |->
     ParseDataFrame(ChunkOf(f))]

\* socket.on("data", ...) has been called: wsEndpoint ran for the connection
DataHandlerInstalled == hPc \in {"middleware", "handler", "stopped", "rejected"}

\* socket "data" event with the chunk holding frame f: the whole handler,
\* client.write and its fan-out to the handler's listeners included
SockData(f) ==
  /\ Step
  /\ DataHandlerInstalled
  /\ sockState \in {"open", "ended"}
  /\ LET p == ParsedChunk[f]
         e == OnData(transport, p, strBuffer, bufOffset, buffer)
         ctx == [n |-> EvCount + 1, from |-> "driver"]
         r == IF e.write = << >> THEN NoCalls
              ELSE Dispatch(listeners, "toServer", "message", e.write[1], ctx, 1)
     IN /\ strBuffer' = e.str
        /\ bufOffset' = e.off
        /\ buffer' = e.buf
        /\ sockOut' = sockOut \o e.out
        /\ sockState' = IF e.crash THEN "crashed"
                        ELSE IF e.end THEN "ended" ELSE sockState
        /\ callLog' = callLog \o r.calls
        /\ evLog' = IF e.write = << >> THEN evLog
                    ELSE Append(evLog,
                           [s |-> "toServer", ev |-> "message",
                            val |-> e.write[1], from |-> "driver",
                            threw |-> r.threw, regs |-> listeners["toServer"],
                            sealed |-> {w \in Views : sealedEver[w]}])
        /\ rxLog' = Append(rxLog,
                      [fin |-> f.fin, opCode |-> f.opCode,
                       payload |-> f.payload, parsed |-> p.opCode,
                       rest |-> FrameRest(f),
                       st0 |-> sockState, st1 |-> sockState',
                       ev0 |-> Len(evLog), ev1 |-> Len(evLog'),
                       out0 |-> Len(sockOut), out1 |-> Len(sockOut'),
                       acc0 |-> Accumulators, acc1 |-> Accumulators'])
  /\ lastOp' = NoOp
  /\ UNCHANGED <<transport, authOk, hPc, mwLog, txLog, sockLog, listeners, view,
                 nMapped, sealedEver>>

\* every middleware resolved truthy: endpoint(duplex, apiContext) is called
MiddlewaresDone ==
  /\ hPc = "middleware"
  /\ hPc' = "handler"
  /\ mwLog' = [i \in 1..NumMiddlewares |-> [i |-> i, res |-> "truthy"]]
  /\ UNCHANGED <<transport, authOk, sockState, strBuffer, bufOffset, buffer, sockOut,
                 rxLog, txLog, sockLog>>
  /\ UNCHANGED duplexVars

\* what a middleware's promise settles to
MiddlewareResults == {"truthy", "falsy", "rejects"}

\* not the program: a loop that goes on when a middleware resolves falsy
MiddlewarePassesAlways(res) == TRUE

\* if (!(await middleware(apiContext, meta))) return
MiddlewarePasses(res) == res = "truthy"

\* the awaited middleware settles with res: the loop returns, or invokes the
\* next middleware, or is over and endpoint(duplex, apiContext) is called
MiddlewareSettle(res) ==
  /\ hPc = "middleware"
  /\ mwLog # << >>
  /\ mwLog[Len(mwLog)].res = "pending"
  /\ LET n == Len(mwLog)
         settled == [mwLog EXCEPT ![n].res = res]
     IN IF res = "rejects" THEN mwLog' = settled /\ hPc' = "rejected"
        ELSE IF ~MiddlewarePasses(res) THEN mwLog' = settled /\ hPc' = "stopped"
        ELSE IF n < NumMiddlewares
        THEN mwLog' = Append(settled, MiddlewareCall(n + 1)) /\ hPc' = hPc
        ELSE mwLog' = settled /\ hPc' = "handler"
  /\ UNCHANGED <<transport, authOk, sockState, strBuffer, bufOffset, buffer, sockOut,
                 rxLog, txLog, sockLog>>
  /\ UNCHANGED duplexVars

\* the endpoint handler registers a listener: duplex.server.addListener(l)
HandlerAddListener(id) ==
  /\ hPc = "handler"
  /\ ViewAddListener("server", id)
  /\ UNCHANGED serverVars

\* the endpoint handler writes a message: duplex.server.write(msg), whose
\* fan-out on toClient reaches the driver's listener
HandlerWrite(msg) ==
  /\ hPc = "handler"
  /\ sockState \in {"open", "ended"}
  /\ ViewEvent("server", "message", msg)
  /\ LET new == SubSeq(callLog', Len(callLog) + 1, Len(callLog'))
     IN sockOut' = sockOut \o DriverWrites(transport, new, 1)
  /\ txLog' = Append(txLog, [msg |-> msg, ev |-> Len(evLog'),
                             out0 |-> Len(sockOut), out1 |-> Len(sockOut')])
  /\ UNCHANGED <<transport, authOk, hPc, mwLog, sockState, strBuffer, bufOffset,
                 buffer, rxLog, sockLog>>

\* not the program: a driver that also closes the inbound Stream on a
\* socket error
SocketListenersErrorCloses(ev) ==
  IF ev = "error" THEN <<"error", "close">> ELSE <<ev>>

\* socket.on("close", client.close); socket.on("error", client.error): the
\* methods of the client view registered for socket event ev
SocketListeners(ev) == <<ev>>

\* the methods `kinds` of the captured client view called in turn with val,
\* from the i-th on, each fanning out on toServer; an exception thrown by a
\* listener's callback leaves the event handler
RECURSIVE DriverEvents(_, _, _, _)
DriverEvents(kinds, val, log, i) ==
  IF i > Len(kinds) THEN [calls |-> << >>, log |-> log, threw |-> FALSE]
  ELSE LET ctx == [n |-> Len(log) + 1, from |-> "driver"]
           v == EventVal(kinds[i], val)
           r == Dispatch(listeners, "toServer", kinds[i], v, ctx, 1)
           log1 == Append(log,
                     [s |-> "toServer", ev |-> kinds[i], val |-> v,
                      from |-> "driver", threw |-> r.threw,
                      regs |-> listeners["toServer"],
                      sealed |-> {w \in Views : sealedEver[w]}])
       IN IF r.threw THEN [calls |-> r.calls, log |-> log1, threw |-> TRUE]
          ELSE LET rest == DriverEvents(kinds, val, log1, i + 1)
               IN [calls |-> r.calls \o rest.calls, log |-> rest.log,
                   threw |-> rest.threw]

\* socket "close" / "error" event: the whole handler, client.close() or
\* client.error(val) and its fan-out to the handler's listeners included
SockEvent(ev, val) ==
  /\ Step
  /\ sockState \in {"open", "ended"}
  /\ LET r == DriverEvents(SocketListeners(ev), val, evLog, 1)
     IN /\ evLog' = r.log
        /\ callLog' = callLog \o r.calls
        /\ sockState' = IF r.threw THEN "crashed"
                        ELSE IF ev = "close" THEN "closed" ELSE sockState
        /\ sockLog' = Append(sockLog,
                        [ev |-> ev, val |-> val,
                         st0 |-> sockState, st1 |-> sockState',
                         ev0 |-> Len(evLog), ev1 |-> Len(evLog'),
                         out0 |-> Len(sockOut), out1 |-> Len(sockOut)])
  /\ lastOp' = NoOp
  /\ UNCHANGED <<transport, authOk, hPc, mwLog, strBuffer, bufOffset, buffer, sockOut,
                 rxLog, txLog, listeners, view, nMapped, sealedEver>>

\* the endpoint handler calls a method of duplex.client
HandlerUseClient(id, x) ==
  /\ hPc = "handler"
  /\ \/ \E ev \in EventKinds : ViewEvent("client", ev, EventVal(ev, x))
     \/ ViewAddListener("client", id)
     \/ ViewOn("client", "message", id)
     \/ ViewRemoveListener("client", id)
     \/ ViewMapOut("client")
     \/ ViewMapIn("client")
  /\ UNCHANGED serverVars

CodecIdle ==
  /\ cPc = "off"
  /\ cFrame = [fin |-> FALSE, opCode |-> OP_UNDEFINED, payload |-> << >>]
  /\ cWire = << >>
  /\ cParsed = NoParse

\* no client connection
ClientIdle ==
  /\ wsTransport = "json"
  /\ wsState = "none"
  /\ mPc = "none"
  /\ nResolved = 0
  /\ wsSent = << >>
  /\ wsLog = << >>

\* no further server connection
ConnsIdle == conns = << >>

\* the parts of the state of the other specifications
OthersIdle == ClientIdle /\ ConnsIdle

OthersUnchanged == UNCHANGED <<clientVars, conns>>

(***************************************************************************)
(* SpecStream: one Stream object and its listeners                         *)
(***************************************************************************)
StreamInit == DuplexIdle /\ CodecIdle /\ ServerIdle /\ OthersIdle

StreamWrite(x) == StreamEvent("", "stream", "message", x)

StreamError(x) == StreamEvent("", "stream", "error", x)

StreamClose == StreamEvent("", "stream", "close", 0)

StreamAdd(id) ==
  /\ Register("addListener", "", "stream", AppListener(id))
  /\ UNCHANGED nMapped

StreamOn(ev, id) ==
  /\ Register("on", "", "stream", OnListener(id, ev))
  /\ UNCHANGED nMapped

StreamRemove(id) == Unregister("", "stream", AppListener(id))

StreamNext ==
  /\ UNCHANGED codecVars
  /\ OthersUnchanged
  /\ UNCHANGED serverVars
  /\ \/ \E x \in Msgs : StreamWrite(x)
     \/ \E x \in Msgs : StreamError(x)
     \/ StreamClose
     \/ \E id \in ListenerIds : StreamAdd(id)
     \/ \E ev \in EventKinds, id \in OnFnIds : StreamOn(ev, id)
     \/ \E id \in ListenerIds : StreamRemove(id)

SpecStream == StreamInit /\ [][StreamNext]_vars

(***************************************************************************)
(* SpecDuplex: the operations reached through duplex.server / duplex.client *)
(***************************************************************************)
DuplexInit == DuplexIdle /\ CodecIdle /\ ServerIdle /\ OthersIdle

\* inputs of the Duplex operations
DuplexListenerIds == {1, 2}

DuplexMsgs == {1}

DuplexOnKinds == {"message"}

DuplexNext ==
  /\ UNCHANGED codecVars
  /\ OthersUnchanged
  /\ UNCHANGED serverVars
  /\ \/ \E v \in Views, ev \in EventKinds, x \in DuplexMsgs :
          ViewEvent(v, ev, EventVal(ev, x))
     \/ \E v \in Views, id \in DuplexListenerIds : ViewAddListener(v, id)
     \/ \E v \in Views, ev \in DuplexOnKinds, id \in OnFnIds : ViewOn(v, ev, id)
     \/ \E v \in Views, id \in DuplexListenerIds : ViewRemoveListener(v, id)
     \/ \E v \in Views : ViewMapOut(v)
     \/ \E v \in Views : ViewMapIn(v)
     \/ CloseServer
     \/ CloseClient

SpecDuplex == DuplexInit /\ [][DuplexNext]_vars

(***************************************************************************)
(* Properties of Stream and Duplex                                         *)
(***************************************************************************)
\* the callback invocations made for event n
CallsOf(n) == SelectSeq(callLog, LAMBDA c : c.n = n)

\* the registrations of regs that define the callback of event kind ev
WithCallback(regs, ev) == SelectSeq(regs, LAMBDA l : HasCallback(l, ev))

\* call c is the invocation of registration l's callback
CallOn(c, l) == c.lid = l.id /\ c.only = l.only /\ c.kind = l.kind /\ c.at = l.at

\* calls invoke the first Len(calls) registrations of regs, in order
InOrderPrefix(calls, regs) ==
  /\ Len(calls) <= Len(regs)
  /\ \A i \in 1..Len(calls) : CallOn(calls[i], regs[i])

\* C1: an event issued through the server view invokes only callbacks of
\* listeners registered through the client view, and an event issued through
\* the client view only those registered through the server view.
C1_DirectionIsolation ==
  \A i \in 1..Len(callLog) :
    LET c == callLog[i]
    IN (c.from \in Views /\ c.kind = "app") => c.via = Opposite(c.from)

\* an event written through the server view reached a client-view listener
\* while a server-view listener with that callback was registered
C1_Witness ==
  \E n \in 1..Len(evLog) :
    /\ evLog[n].from = "server"
    /\ \E i \in 1..Len(callLog) : callLog[i].n = n /\ callLog[i].via = "client"
    /\ \E j \in 1..Len(listeners["toServer"]) :
         LET l == listeners["toServer"][j]
         IN l.via = "server" /\ l.at < n /\ HasCallback(l, evLog[n].ev)

\* the registrations made through view v, stream by stream
RegsVia(ls, v) == [s \in StreamIds |-> SelectSeq(ls[s], LAMBDA l : l.via = v)]

\* C2: once closeServer() (closeClient()) was called the server (client) view
\* stays sealed whatever is called next; a call through it throws, issues no
\* event, invokes no callback and changes no registration, and only a sealed
\* view throws "Closed Out Stream".
C2_SealIrreversible ==
  [][\A v \in Views :
       /\ sealedEver[v] =>
            /\ sealedEver'[v]
            /\ view'[v] = "sealed"
            /\ RegsVia(listeners', v) = RegsVia(listeners, v)
            /\ \A n \in 1..Len(evLog') : n > Len(evLog) => evLog'[n].from # v
            /\ \A i \in 1..Len(callLog') :
                 i > Len(callLog) => callLog'[i].from # v
       /\ (lastOp'.closed /\ lastOp'.view = v) => sealedEver[v]]_vars

\* the server view is sealed and a call through it has just thrown; after the
\* seal a write through the client view was delivered to a listener
C2_Witness ==
  /\ sealedEver["server"]
  /\ lastOp.closed
  /\ lastOp.view = "server"
  /\ \E n \in 1..Len(evLog) :
       /\ evLog[n].from = "client"
       /\ "server" \in evLog[n].sealed
       /\ CallsOf(n) # << >>

\* C8: write / error / close invoke the callback of the registered listeners
\* in registration order, once per registration (an object registered twice
\* is invoked twice), inside the call: all of them when no callback throws,
\* and never out of order.
C8_FanOutOrder ==
  \A n \in 1..Len(evLog) :
    LET e == evLog[n]
        calls == CallsOf(n)
        expected == WithCallback(e.regs, e.ev)
    IN /\ InOrderPrefix(calls, expected)
       /\ ~e.threw => Len(calls) = Len(expected)
       /\ \A i \in 1..Len(calls) :
            calls[i].ev = e.ev /\ calls[i].val = e.val /\ calls[i].s = e.s

\* a write reached three registrations in order, two of them the same object
C8_Witness ==
  \E n \in 1..Len(evLog) :
    LET calls == CallsOf(n)
    IN /\ evLog[n].ev = "message"
       /\ Len(calls) = 3
       /\ calls[1].lid = calls[3].lid
       /\ calls[1].only = "" /\ calls[3].only = ""
       /\ calls[2].lid # calls[1].lid

\* C9 as claimed: when a callback throws, the callbacks of the listeners
\* registered after it are still invoked for that event.
C9_LaterListenersStillInvoked ==
  \A n \in 1..Len(evLog) :
    evLog[n].threw =>
      Len(CallsOf(n)) = Len(WithCallback(evLog[n].regs, evLog[n].ev))

\* C9 as the code has it: when a callback throws, the exception leaves
\* write / error / close: the listeners registered before the throwing one
\* have been invoked, in order, the throwing one is the last one invoked, and
\* no listener registered after it is invoked for that event.
C9_ThrowStopsFanOut ==
  \A n \in 1..Len(evLog) :
    LET e == evLog[n]
        calls == CallsOf(n)
        expected == WithCallback(e.regs, e.ev)
        throwers == {i \in 1..Len(expected) : CallbackThrows(expected[i])}
    IN /\ e.threw <=> throwers # {}
       /\ e.threw =>
            /\ InOrderPrefix(calls, expected)
            /\ Len(calls) \in throwers
            /\ \A i \in throwers : i >= Len(calls)

\* a callback threw while a listener with that callback was registered after it
C9_Witness ==
  \E n \in 1..Len(evLog) :
    /\ evLog[n].threw
    /\ 0 < Len(CallsOf(n))
    /\ Len(CallsOf(n)) < Len(WithCallback(evLog[n].regs, evLog[n].ev))

\* C10: a Stream keeps no history: every callback invocation is made for an
\* event issued after the listener was registered, so a listener added after
\* an event never sees it and an event issued with no listener is dropped.
C10_NoReplay ==
  \A i \in 1..Len(callLog) :
    /\ callLog[i].at < callLog[i].n
    /\ i > 1 => callLog[i - 1].n <= callLog[i].n

\* an event was issued with no listener registered, a listener with that
\* callback was added afterwards, and no callback has been invoked
C10_Witness ==
  /\ Len(evLog) >= 1
  /\ evLog[1].regs = << >>
  /\ callLog = << >>
  /\ \E j \in 1..Len(listeners["stream"]) :
       LET l == listeners["stream"][j]
       IN l.at >= 1 /\ HasCallback(l, evLog[1].ev)

(***************************************************************************)
(* SpecCodec: encode a frame, then decode the bytes written                *)
(***************************************************************************)
CodecOpCodes == {OP_TEXT, OP_BINARY, OP_CONNECTION_CLOSE, OP_PING, OP_PONG}

CodecLens == {0, 10, 200, 70000}

CodecInit ==
  /\ DuplexIdle
  /\ OthersIdle
  /\ ServerIdle
  /\ cPc = "frame"
  /\ cFrame \in {[fin |-> f, opCode |-> o, payload |-> FillPayload(n, s)] :
                   f \in BOOLEAN, o \in CodecOpCodes, n \in CodecLens,
                   s \in 0..MaxSeed}
  /\ cWire = << >>
  /\ cParsed = NoParse

CodecEncode ==
  /\ cPc = "frame"
  /\ cWire' = SendDataFrame(cFrame)
  /\ cPc' = "encoded"
  /\ UNCHANGED <<cFrame, cParsed>>
  /\ UNCHANGED duplexVars
  /\ UNCHANGED serverVars

CodecDecode ==
  /\ cPc = "encoded"
  /\ cParsed' = ParseDataFrame(cWire)
  /\ cPc' = "decoded"
  /\ UNCHANGED <<cFrame, cWire>>
  /\ UNCHANGED duplexVars
  /\ UNCHANGED serverVars

CodecNext ==
  /\ OthersUnchanged
  /\ \/ CodecEncode
     \/ CodecDecode

SpecCodec == CodecInit /\ [][CodecNext]_vars

\* C6: decoding the bytes produced by encoding a frame reproduces fin, opCode
\* and the payload byte for byte (opcodes TEXT/BINARY/PING/PONG/CLOSE, lengths
\* 0, 10, 200, 70000).
C6_RoundTrip ==
  cPc = "decoded" =>
    /\ ~cParsed.err
    /\ cParsed.fin = cFrame.fin
    /\ cParsed.opCode = cFrame.opCode
    /\ cParsed.payload = cFrame.payload

(***************************************************************************)
(* SpecServerIn: one server connection, the chunks its socket delivers and *)
(* the handler registering listeners                                       *)
(***************************************************************************)
HandlerListenerIds == {1}

ServerInInit ==
  CodecIdle /\ OthersIdle /\ \E tr \in ServerTransports : ServerStart(tr)

ServerInNext ==
  /\ UNCHANGED codecVars
  /\ OthersUnchanged
  /\ \/ \E f \in InFrames : SockData(f)
     \/ MiddlewaresDone
     \/ \E id \in HandlerListenerIds : HandlerAddListener(id)

SpecServerIn == ServerInInit /\ [][ServerInNext]_vars

\* the concatenation of the payloads of the received frames i..j
RECURSIVE PayloadsOf(_, _)
PayloadsOf(i, j) ==
  IF i > j THEN << >> ELSE rxLog[i].payload \o PayloadsOf(i + 1, j)

\* frames i..j are one fragmented text message: TEXT frames, the last one
\* alone with fin set, the first one received with an empty text accumulator
IsTextMessage(i, j) ==
  /\ \A k \in i..j : rxLog[k].opCode = OP_TEXT /\ (rxLog[k].fin <=> k = j)
  /\ rxLog[i].acc0[1] = << >>

\* C3: with the JSON transport, TEXT frames with fin=false followed by one
\* with fin=true give exactly one write on the inbound Stream, made while the
\* fin=true frame is processed, whose value is the JSON parse of the
\* concatenated payloads; the fin=false fragments give no write.
C3_FragmentedTextOneWrite ==
  transport = "json" =>
    \A j \in 1..Len(rxLog) : \A i \in 1..j :
      LET parsed == JSONParse(TextDecode(PayloadsOf(i, j)))
      IN (IsTextMessage(i, j) /\ ~parsed.err) =>
           /\ \A k \in i..(j - 1) : rxLog[k].ev1 = rxLog[k].ev0
           /\ rxLog[j].ev1 = rxLog[j].ev0 + 1
           /\ evLog[rxLog[j].ev1].s = "toServer"
           /\ evLog[rxLog[j].ev1].val = parsed.val

\* the inbound deliveries: the callback invocations made by the driver's
\* client.write
Deliveries == SelectSeq(callLog, LAMBDA c : c.from = "driver")

\* C4: inbound messages reach the handler's listeners in the order in which
\* their fin=true frames were processed: a frame gives at most one message,
\* only a TEXT or BINARY frame with fin set gives one, and every registered
\* listener receives each message at most once, the messages in that order,
\* whatever fragments and control frames are interleaved.
C4_InboundOrder ==
  /\ \A k \in 1..Len(rxLog) :
       LET r == rxLog[k]
       IN /\ r.ev1 \in {r.ev0, r.ev0 + 1}
          /\ r.ev1 > r.ev0 => r.fin /\ r.opCode \in {OP_TEXT, OP_BINARY}
          /\ k > 1 => rxLog[k - 1].ev1 = r.ev0
  /\ \A i \in 1..Len(Deliveries) :
       LET c == Deliveries[i]
       IN /\ c.val = evLog[c.n].val
          /\ \E k \in 1..Len(rxLog) : rxLog[k].ev1 = c.n /\ rxLog[k].ev0 = c.n - 1
          /\ \A j \in 1..(i - 1) : Deliveries[j].n <= c.n
  /\ \A n \in 1..Len(evLog) :
       evLog[n].from = "driver" =>
         InOrderPrefix(CallsOf(n), WithCallback(evLog[n].regs, "message"))

\* a listener received two messages, in the order of their fin=true frames,
\* with a control frame or a fragment processed between the two
C4_Witness ==
  \E i, j \in 1..Len(Deliveries) :
    /\ i < j
    /\ Deliveries[i].lid = Deliveries[j].lid
    /\ Deliveries[i].n < Deliveries[j].n
    /\ \E k \in 1..Len(rxLog) :
         /\ rxLog[k].ev0 >= Deliveries[i].n
         /\ rxLog[k].ev1 < Deliveries[j].n
         /\ (rxLog[k].opCode = OP_PING \/ ~rxLog[k].fin)

\* the length field of the wire format: 1 byte, 126 and 2 bytes, or 127 and
\* 4 bytes
WireLenField(n) ==
  IF n < 126 THEN <<n>>
  ELSE IF n < 65536 THEN <<126, n \div 256, n % 256>>
  ELSE <<127, n \div 16777216, (n \div 65536) % 256, (n \div 256) % 256, n % 256>>

\* bytes is one complete unmasked frame of the wire format with this fin,
\* opcode and payload
IsFrame(bytes, fin, opCode, payload) ==
  bytes = <<(IF fin THEN 128 ELSE 0) + opCode>> \o WireLenField(Len(payload))
            \o payload

\* C5: a PING frame causes exactly one outbound frame, a PONG with the
\* PING's payload, no write on the Duplex, and leaves the text accumulator,
\* the binary buffer and the binary offset unchanged.
C5_PingPong ==
  \A k \in 1..Len(rxLog) :
    LET r == rxLog[k]
    IN r.opCode = OP_PING =>
         /\ r.out1 = r.out0 + 1
         /\ \E fin \in BOOLEAN : IsFrame(sockOut[r.out1], fin, OP_PONG, r.payload)
         /\ r.ev1 = r.ev0
         /\ r.acc1 = r.acc0

(***************************************************************************)
(* SpecServerOut: one server connection whose handler writes messages      *)
(***************************************************************************)
BigLen == 65534       \* characters of the long message the handler writes

OutMsgs == {StrVal(<<104, 105>>), RepVal(97, BigLen)}

ServerOutInit ==
  CodecIdle /\ OthersIdle /\ \E tr \in ServerTransports : ServerStart(tr)

ServerOutNext ==
  /\ UNCHANGED codecVars
  /\ OthersUnchanged
  /\ \/ \E msg \in OutMsgs : HandlerWrite(msg)
     \/ \E f \in OutFrames : SockData(f)
     \/ MiddlewaresDone

SpecServerOut == ServerOutInit /\ [][ServerOutNext]_vars

\* the bytes the transport encodes message msg to
EncodedRes(msg) ==
  IF transport = "binary" THEN CustomEncodeRes(transport, msg)
  ELSE TextEncode(JSONStringify(msg))

\* C7: every message the handler writes gives, during the write, exactly one
\* socket write of one complete frame with fin=true and opcode TEXT (BINARY
\* for the binary transport) carrying the encoded message, in write order.
C7_OneFramePerWrite ==
  \A k \in 1..Len(txLog) :
    LET w == txLog[k]
    IN /\ w.out1 = w.out0 + 1
       /\ k > 1 => txLog[k - 1].out1 <= w.out0
       /\ IsFrame(sockOut[w.out1], TRUE,
                  IF transport = "binary" THEN OP_BINARY ELSE OP_TEXT,
                  EncodedRes(w.msg))

(***************************************************************************)
(* SpecServerCtl: one server connection receiving text that does not       *)
(* decode, binary messages, CLOSE frames and frames with unknown opcodes   *)
(***************************************************************************)
CtlTransports == {"json", "binary", "text"}

ServerCtlInit ==
  CodecIdle /\ OthersIdle /\ \E tr \in CtlTransports : ServerStart(tr)

ServerCtlNext ==
  /\ UNCHANGED codecVars
  /\ OthersUnchanged
  /\ \/ \E f \in CtlFrames : SockData(f)
     \/ MiddlewaresDone
     \/ \E id \in HandlerListenerIds : HandlerAddListener(id)

SpecServerCtl == ServerCtlInit /\ [][ServerCtlNext]_vars

\* the text the driver holds when received frame k has been appended
TextAt(k) == rxLog[k].acc0[1] \o TextDecode(rxLog[k].payload)

\* received frame k completes a text message that does not decode
FailedText(k) ==
  /\ rxLog[k].opCode = OP_TEXT
  /\ rxLog[k].fin
  /\ DecodeText(transport, TextAt(k)).err

\* received frame j is the first TEXT frame after frame k
NextTextAfter(k, j) ==
  /\ j > k
  /\ rxLog[j].opCode = OP_TEXT
  /\ \A i \in (k + 1)..(j - 1) : rxLog[i].opCode # OP_TEXT

\* C11: a completed text message that does not decode (JSON.parse or the
\* custom decoder throws) gives no event on either Stream (no write, no
\* error, no close), leaves the socket as it was, and empties the text
\* accumulator: the next text frame starts from the empty accumulator and a
\* next text message that decodes on its own is written to the inbound Stream.
C11_DecodeFailureDropped ==
  \A k \in 1..Len(rxLog) :
    FailedText(k) =>
      /\ rxLog[k].ev1 = rxLog[k].ev0
      /\ rxLog[k].st1 = rxLog[k].st0
      /\ rxLog[k].acc1[1] = << >>
      /\ \A j \in 1..Len(rxLog) :
           NextTextAfter(k, j) =>
             LET d == DecodeText(transport, TextDecode(rxLog[j].payload))
             IN /\ rxLog[j].acc0[1] = << >>
                /\ (rxLog[j].fin /\ ~d.err) =>
                     /\ rxLog[j].ev1 = rxLog[j].ev0 + 1
                     /\ evLog[rxLog[j].ev1].s = "toServer"
                     /\ evLog[rxLog[j].ev1].ev = "message"
                     /\ evLog[rxLog[j].ev1].val = d.val

\* a fragmented text message failed to decode on an open socket and the text
\* message after it was delivered to a listener of the handler
C11_Witness ==
  \E k, j \in 1..Len(rxLog) :
    /\ FailedText(k)
    /\ rxLog[k].acc0[1] # << >>
    /\ rxLog[k].st1 = "open"
    /\ NextTextAfter(k, j)
    /\ rxLog[j].ev1 = rxLog[j].ev0 + 1
    /\ CallsOf(rxLog[j].ev1) # << >>

\* the payloads of the BINARY frames received up to frame k since the last
\* BINARY frame with fin set
RECURSIVE BinarySince(_)
BinarySince(k) ==
  IF k = 0 \/ (rxLog[k].opCode = OP_BINARY /\ rxLog[k].fin) THEN << >>
  ELSE IF rxLog[k].opCode = OP_BINARY
       THEN BinarySince(k - 1) \o rxLog[k].payload
       ELSE BinarySince(k - 1)

\* C12: with a binary transport, a BINARY frame with fin set gives exactly
\* one write on the inbound Stream whose value is what the decoder returns
\* for the filled region of the accumulator, i.e. the concatenated payloads
\* received since the last completed binary message, of length offset; the
\* offset is 0 afterwards.
C12_BinaryFilledRegion ==
  transport = "binary" =>
    \A k \in 1..Len(rxLog) :
      LET r == rxLog[k]
          region == BinarySince(k - 1) \o r.payload
      IN (r.opCode = OP_BINARY /\ r.fin) =>
           /\ Len(region) = r.acc0[2] + Len(r.payload)
           /\ r.ev1 = r.ev0 + 1
           /\ evLog[r.ev1].s = "toServer"
           /\ evLog[r.ev1].val =
                CustomDecodeReq(BinVal(TrimZeros(region), Len(region))).val
           /\ r.acc1[2] = 0

\* C17: a CLOSE frame makes the driver end the socket; it writes no frame to
\* the socket (no CLOSE in response), issues no event on the Duplex, and
\* leaves the text accumulator, the binary buffer and the offset unchanged.
C17_CloseEndsSocket ==
  \A k \in 1..Len(rxLog) :
    LET r == rxLog[k]
    IN r.opCode = OP_CONNECTION_CLOSE =>
         /\ r.st1 = "ended"
         /\ r.out1 = r.out0
         /\ r.ev1 = r.ev0
         /\ r.acc1 = r.acc0

\* a CLOSE frame arrived on an open socket while a text fragment and a binary
\* fragment were held and the handler had a listener registered
C17_Witness ==
  \E k \in 1..Len(rxLog) :
    /\ rxLog[k].opCode = OP_CONNECTION_CLOSE
    /\ rxLog[k].st0 = "open"
    /\ rxLog[k].acc0[1] # << >>
    /\ rxLog[k].acc0[2] > 0
    /\ listeners["toServer"] # << >>

\* C18: a frame whose opcode is none of 0, 1, 2, 8, 9, 10 is parsed without
\* an error as a frame with the UNDEFINED opcode, and the driver does nothing
\* with it: no event on the Duplex, no write to the socket, no socket.end,
\* accumulators unchanged.
C18_UnknownOpCodeIgnored ==
  \A k \in 1..Len(rxLog) :
    LET r == rxLog[k]
    IN r.opCode \notin KnownOpCodes \ {OP_UNDEFINED} =>
         /\ r.parsed = OP_UNDEFINED
         /\ r.st1 = r.st0
         /\ r.ev1 = r.ev0
         /\ r.out1 = r.out0
         /\ r.acc1 = r.acc0

\* frames with the opcodes 3 and 11 arrived on an open socket, one of them
\* while a text fragment was held
C18_Witness ==
  \E j, k \in 1..Len(rxLog) :
    /\ rxLog[j].opCode = 3
    /\ rxLog[k].opCode = 11
    /\ rxLog[k].st1 = "open"
    /\ rxLog[j].st1 = "open"
    /\ rxLog[k].acc0[1] # << >>

(***************************************************************************)
(* Client connection driver: createWsEndpoint, openStreamHandler           *)
(***************************************************************************)
ClientTransports == {"json", "text"}

\* sample transport.encode.req of the custom text transport: the JSON text
\* after a number sign
CustomEncodeReq(req) == <<35>> \o JSONStringify(req)

\* transport.encode.req(req) or JSON.stringify(req)
EncodeReq(tr, req) ==
  IF tr = "text" THEN CustomEncodeReq(req) ELSE JSONStringify(req)

\* the listener ws.onopen registers through the captured server view
ClientDriverListener ==
  [kind |-> "wsdriver", id |-> 0, only |-> "", to |-> "", fn |-> "",
   via |-> "server", at |-> 0]

\* the ws.send calls made by the driver's listener for the callback
\* invocations `calls`: onMessage -> ws.send(encoded)
RECURSIVE ClientSends(_, _, _)
ClientSends(tr, calls, i) ==
  IF i > Len(calls) THEN << >>
  ELSE (IF calls[i].kind = "wsdriver" /\ calls[i].ev = "message"
        THEN <<EncodeReq(tr, calls[i].val)>>
        ELSE << >>) \o ClientSends(tr, calls, i + 1)

\* not the program: a driver registering its listener when the call is made
ClientStartListenersEager ==
  [s \in StreamIds |->
     IF s = "toServer" THEN <<ClientDriverListener>> ELSE << >>]

\* new Duplex(): no listener is registered before the socket's open event
ClientStartListeners == [s \in StreamIds |-> << >>]

\* the state of a connection call at its await: the WebSocket created, its
\* onmessage / onerror / onclose set, the server view sealed
ClientStart(tr) ==
  /\ wsTransport = tr
  /\ wsState = "connecting"
  /\ mPc = "awaiting"
  /\ nResolved = 0
  /\ wsSent = << >>
  /\ wsLog = << >>
  /\ listeners = ClientStartListeners
  /\ view = CloseServerView([v \in Views |-> "open"])
  /\ nMapped = 0
  /\ nOps = 0
  /\ evLog = << >>
  /\ callLog = << >>
  /\ lastOp = NoOp
  /\ sealedEver = [v \in Views |-> v = "server"]

\* not the program: a call that does not await the promise
AwaitSkipped == TRUE

\* await new Promise((resolve) => ...): over once resolve was called
AwaitDone == nResolved > 0

WsEntry(kind, msg, st1, sent1) ==
  [kind |-> kind, msg |-> msg, st0 |-> wsState, st1 |-> st1,
   sent0 |-> Len(wsSent), sent1 |-> sent1, pc |-> mPc]

\* the socket's open event: ws.onopen registers the driver's listener through
\* the server view captured before the seal, then calls resolve()
WsOpen ==
  /\ Step
  /\ wsState = "connecting"
  /\ mPc # "resolved"
  /\ wsState' = "open"
  /\ listeners' = StreamAddListener(listeners, ReadStream("server"),
                    Tagged(ClientDriverListener, "server", EvCount)).listeners
  /\ nResolved' = nResolved + 1
  /\ mPc' = IF mPc = "awaiting" THEN "resolved" ELSE mPc
  /\ wsLog' = Append(wsLog, WsEntry("open", NumVal(0), "open", Len(wsSent)))
  /\ lastOp' = NoOp
  /\ UNCHANGED <<wsTransport, wsSent, view, nMapped, evLog, callLog, sealedEver>>

\* the continuation of the await: the method returns, and openStreamHandler
\* returns duplex.client; it runs before any other event is handled
CallReturn ==
  /\ mPc \in {"awaiting", "resolved"}
  /\ AwaitDone
  /\ mPc' = "returned"
  /\ UNCHANGED <<wsTransport, wsState, nResolved, wsSent, wsLog>>
  /\ UNCHANGED duplexVars

\* the socket's error / close event: ws.onerror = server.error(new Error(..)),
\* ws.onclose = server.close, through the captured server view
WsEvent(ev, val) ==
  /\ wsState \in {"connecting", "open"}
  /\ mPc # "resolved"
  /\ StreamEvent("ws", WriteStream("server"), ev, val)
  /\ wsState' = IF ev = "close" THEN "closed" ELSE wsState
  /\ wsLog' = Append(wsLog, WsEntry(ev, NumVal(val), wsState', Len(wsSent)))
  /\ UNCHANGED <<wsTransport, mPc, nResolved, wsSent>>

\* the application writes through duplex.client: the fan-out on toServer
\* reaches the driver's listener, if registered
AppWrite(msg) ==
  /\ mPc # "resolved"
  /\ ViewEvent("client", "message", msg)
  /\ LET new == SubSeq(callLog', Len(callLog) + 1, Len(callLog'))
     IN wsSent' = wsSent \o ClientSends(wsTransport, new, 1)
  /\ wsLog' = Append(wsLog, WsEntry("write", msg, wsState, Len(wsSent')))
  /\ UNCHANGED <<wsTransport, wsState, mPc, nResolved>>

\* the application registers a listener through duplex.client
AppAddListener(id) ==
  /\ mPc # "resolved"
  /\ ViewAddListener("client", id)
  /\ UNCHANGED clientVars

(***************************************************************************)
(* SpecClient: one client connection call, its socket events and the       *)
(* application's writes                                                    *)
(***************************************************************************)
AppMsgs == {StrVal(<<104, 105>>), NumVal(7)}

AppListenerIds == {1}

ClientInit ==
  /\ CodecIdle
  /\ ServerIdle
  /\ ConnsIdle
  /\ \E tr \in ClientTransports : ClientStart(tr)

ClientNext ==
  /\ UNCHANGED codecVars
  /\ UNCHANGED serverVars
  /\ UNCHANGED conns
  /\ \/ WsOpen
     \/ CallReturn
     \/ WsEvent("error", 1)
     \/ WsEvent("close", 0)
     \/ \E msg \in AppMsgs : AppWrite(msg)
     \/ \E id \in AppListenerIds : AppAddListener(id)

SpecClient == ClientInit /\ [][ClientNext]_vars

\* the socket's open event is among the first k entries of wsLog
OpenedWithin(k) == \E j \in 1..k : wsLog[j].kind = "open"

DriverInstalled ==
  \E j \in 1..Len(listeners["toServer"]) :
    listeners["toServer"][j].kind = "wsdriver"

\* C13: the connection call returns only after the socket's open event: when
\* the promise is resolved or the call has returned, the open event has
\* happened, the outbound listener is installed and resolve was called
\* exactly once; as long as no open event has happened (the socket erroring
\* or closing first included) the call is still awaiting.
C13_ReturnsAfterOpen ==
  /\ nResolved <= 1
  /\ mPc \in {"resolved", "returned"} =>
       /\ OpenedWithin(Len(wsLog))
       /\ DriverInstalled
       /\ nResolved = 1
  /\ ~OpenedWithin(Len(wsLog)) =>
       /\ mPc = "awaiting"
       /\ nResolved = 0
       /\ ~DriverInstalled

\* the call has returned on a socket that reported an error before it opened
C13_Witness ==
  /\ mPc = "returned"
  /\ DriverInstalled
  /\ \E k \in 1..Len(wsLog) : wsLog[k].kind = "error" /\ ~OpenedWithin(k)

\* the socket closed without opening and the call is still awaiting
C13_NeverOpened ==
  /\ wsState = "closed"
  /\ ~OpenedWithin(Len(wsLog))
  /\ mPc = "awaiting"

\* the ws.send calls the first k entries of wsLog ask for: one per write made
\* after the open event
RECURSIVE ExpectedSent(_)
ExpectedSent(k) ==
  IF k = 0 THEN << >>
  ELSE ExpectedSent(k - 1) \o
       (IF wsLog[k].kind = "write" /\ OpenedWithin(k - 1)
        THEN <<EncodeReq(wsTransport, wsLog[k].msg)>>
        ELSE << >>)

\* C14: ws.send is called exactly once, inside the write, with the encoded
\* message (JSON.stringify by default) for every message written through
\* duplex.client after the open event, in write order; a message written
\* before the open event is sent neither then nor later.
C14_SendPerWrite ==
  /\ wsSent = ExpectedSent(Len(wsLog))
  /\ \A k \in 1..Len(wsLog) :
       /\ wsLog[k].kind = "write" =>
            wsLog[k].sent1 =
              wsLog[k].sent0 + (IF OpenedWithin(k - 1) THEN 1 ELSE 0)
       /\ wsLog[k].kind # "write" => wsLog[k].sent1 = wsLog[k].sent0
       /\ wsLog[k].sent1 = Len(ExpectedSent(k))

\* a message was written before the open event and two different messages
\* after it, and those two were sent
C14_Witness ==
  /\ Len(wsLog) >= 4
  /\ wsLog[1].kind = "write"
  /\ wsLog[2].kind = "open"
  /\ wsLog[3].kind = "write"
  /\ wsLog[4].kind = "write"
  /\ wsLog[3].msg # wsLog[4].msg
  /\ Len(wsSent) = 2

(***************************************************************************)
(* SpecServerConn: one server connection with its socket's close and error *)
(* events and a handler using both views of the Duplex                     *)
(***************************************************************************)
ConnFrames == {InFrame(FALSE, OP_TEXT, <<55>>), InFrame(TRUE, OP_TEXT, <<55>>)}

ConnListenerIds == {1, 2}

ConnMsgs == {StrVal(<<104, 105>>)}

ServerConnInit ==
  CodecIdle /\ OthersIdle /\ \E tr \in ServerTransports : ServerStart(tr)

ServerConnNext ==
  /\ UNCHANGED codecVars
  /\ OthersUnchanged
  /\ \/ \E f \in ConnFrames : SockData(f)
     \/ SockEvent("close", 0)
     \/ SockEvent("error", 1)
     \/ MiddlewaresDone
     \/ \E id \in ConnListenerIds : HandlerAddListener(id)
     \/ \E msg \in ConnMsgs : HandlerWrite(msg)
     \/ \E id \in ConnListenerIds, x \in DuplexMsgs : HandlerUseClient(id, x)

SpecServerConn == ServerConnInit /\ [][ServerConnNext]_vars

C16_SocketCloseAndError ==
  \A k \in 1..Len(sockLog) :
    LET r == sockLog[k]
        e == evLog[r.ev1]
    IN /\ r.ev1 = r.ev0 + 1
       /\ e.s = "toServer"
       /\ e.from = "driver"
       /\ e.ev = r.ev
       /\ r.ev = "error" => e.val = r.val
       /\ r.out1 = r.out0
       /\ InOrderPrefix(CallsOf(r.ev1), WithCallback(e.regs, r.ev))
       /\ ~e.threw =>
            /\ Len(CallsOf(r.ev1)) = Len(WithCallback(e.regs, r.ev))
            /\ r.ev = "error" => r.st1 = r.st0
            /\ r.ev = "close" => r.st1 = "closed"

\* a socket error reached the handler's error callback and left the socket
\* open, and the close event after it reached the handler's close callback
C16_Witness ==
  \E j, k \in 1..Len(sockLog) :
    /\ j < k
    /\ sockLog[j].ev = "error"
    /\ sockLog[j].st1 = "open"
    /\ CallsOf(sockLog[j].ev1) # << >>
    /\ sockLog[k].ev = "close"
    /\ CallsOf(sockLog[k].ev1) # << >>

(***************************************************************************)
(* SpecMiddleware: one server connection whose middlewares settle one by   *)
(* one while frames arrive                                                 *)
(***************************************************************************)
ServerMwInit ==
  CodecIdle /\ OthersIdle /\ \E tr \in ServerTransports : ServerStart(tr)

ServerMwNext ==
  /\ UNCHANGED codecVars
  /\ OthersUnchanged
  /\ \/ \E res \in MiddlewareResults : MiddlewareSettle(res)
     \/ \E f \in ConnFrames : SockData(f)
     \/ \E id \in HandlerListenerIds : HandlerAddListener(id)
     \/ \E msg \in ConnMsgs : HandlerWrite(msg)

SpecMiddleware == ServerMwInit /\ [][ServerMwNext]_vars

\* the handler has acted: a listener registered through the server view, or
\* a message written
HandlerActed ==
  \/ txLog # << >>
  \/ \E j \in 1..Len(listeners["toServer"]) :
       listeners["toServer"][j].via = "server"

\* C20: the middlewares are invoked in list order, one at a time: the k-th
\* invocation is of the k-th middleware and is made only when every earlier
\* one has resolved truthy; the endpoint handler is invoked exactly when all
\* of them have resolved truthy; once one has resolved falsy no later
\* middleware and not the handler is invoked.
C20_MiddlewareOrder ==
  /\ Len(mwLog) <= NumMiddlewares
  /\ \A k \in 1..Len(mwLog) :
       /\ mwLog[k].i = k
       /\ k < Len(mwLog) => mwLog[k].res = "truthy"
  /\ hPc = "handler" <=>
       /\ Len(mwLog) = NumMiddlewares
       /\ \A k \in 1..Len(mwLog) : mwLog[k].res = "truthy"
  /\ hPc = "stopped" <=> mwLog[Len(mwLog)].res = "falsy"
  /\ hPc = "middleware" <=> mwLog[Len(mwLog)].res = "pending"
  /\ HandlerActed => hPc = "handler"

\* the second middleware resolved falsy after the first resolved truthy: the
\* third was not invoked, and a frame has arrived since
C20_Witness ==
  /\ hPc = "stopped"
  /\ Len(mwLog) = 2
  /\ Len(mwLog) < NumMiddlewares
  /\ mwLog[1].res = "truthy"
  /\ rxLog # << >>

\* every middleware resolved truthy and the handler, invoked, has acted
C20_HandlerRan ==
  /\ hPc = "handler"
  /\ Len(mwLog) = NumMiddlewares
  /\ HandlerActed

(***************************************************************************)
(* SpecConns: two server connections whose chunks interleave.  Each call   *)
(* of the connection handler has its own socket, Duplex, strBuffer,        *)
(* bufOffset and buffer; a connection's Duplex is represented by the       *)
(* values written to its inbound Stream.                                   *)
(***************************************************************************)
ConnIds == {"A", "B"}

ConnsFrames ==
  {InFrame(FALSE, OP_TEXT, <<55>>),
   InFrame(TRUE, OP_TEXT, <<55>>),
   InFrame(FALSE, OP_BINARY, <<1, 2>>),
   InFrame(TRUE, OP_BINARY, <<3>>),
   InFrame(TRUE, OP_CONNECTION_CLOSE, << >>)}

\* the state of a connection when its handler has been set up
NewConn(tr) ==
  [tr |-> tr, str |-> << >>, off |-> 0, buf |-> EmptyBuffer, out |-> << >>,
   writes |-> << >>, ended |-> FALSE, rx |-> << >>]

\* not the program: accumulators declared once for all connections
ClosureShared(c) == "A"

\* let strBuffer / bufOffset / buffer are declared inside the connection
\* handler: the accumulators the data handler of connection c reads and writes
ClosureOf(c) == c

\* socket "data" event of connection c with the chunk holding frame f; at is
\* the number of chunks that arrived before it on any connection
ConnData(c, f) ==
  /\ Step
  /\ LET acc == conns[ClosureOf(c)]
         e == OnData(conns[c].tr, ParsedChunk[f], acc.str, acc.off, acc.buf)
         stored == [conns EXCEPT ![ClosureOf(c)] =
                      [@ EXCEPT !.str = e.str, !.off = e.off, !.buf = e.buf]]
     IN conns' = [stored EXCEPT ![c] =
                    [@ EXCEPT !.out = @ \o e.out,
                              !.writes = @ \o e.write,
                              !.ended = @ \/ e.end,
                              !.rx = Append(@, [f |-> f, at |-> nOps])]]
  /\ UNCHANGED <<listeners, view, nMapped, evLog, callLog, lastOp, sealedEver>>

ConnsInit ==
  /\ CodecIdle
  /\ DuplexIdle
  /\ ServerIdle
  /\ ClientIdle
  /\ conns \in [ConnIds -> {NewConn(tr) : tr \in ServerTransports}]

ConnsNext ==
  /\ UNCHANGED codecVars
  /\ UNCHANGED serverVars
  /\ UNCHANGED clientVars
  /\ \E c \in ConnIds, f \in ConnsFrames : ConnData(c, f)

SpecConns == ConnsInit /\ [][ConnsNext]_vars

\* the state of a connection with transport tr that received the first k
\* frames of rx and nothing else happened in the process
RECURSIVE Alone(_, _, _)
Alone(tr, rx, k) ==
  IF k = 0 THEN NewConn(tr)
  ELSE LET prev == Alone(tr, rx, k - 1)
           e == OnData(tr, ParsedChunk[rx[k].f], prev.str, prev.off, prev.buf)
       IN [tr |-> tr, str |-> e.str, off |-> e.off, buf |-> e.buf,
           out |-> prev.out \o e.out, writes |-> prev.writes \o e.write,
           ended |-> prev.ended \/ e.end, rx |-> Append(prev.rx, rx[k])]

\* C19: a chunk arriving on one connection leaves the text accumulator, the
\* binary buffer and offset, the inbound writes and the socket writes of
\* every other connection unchanged, and each connection's accumulators,
\* inbound writes and socket writes are those it has when its frames arrive
\* with no other connection.
C19_ConnectionsIsolated ==
  [][\A c \in ConnIds :
       /\ conns'[c].rx = conns[c].rx => conns'[c] = conns[c]
       /\ conns'[c] = Alone(conns'[c].tr, conns'[c].rx, Len(conns'[c].rx))]_vars

\* the fragments of a text message of A and of a binary message of B
\* arrived interleaved and both messages were completed
C19_Witness ==
  /\ Len(conns["A"].rx) = 2
  /\ Len(conns["B"].rx) = 2
  /\ conns["A"].rx[1].at < conns["B"].rx[1].at
  /\ conns["B"].rx[1].at < conns["A"].rx[2].at
  /\ conns["A"].rx[2].at < conns["B"].rx[2].at
  /\ conns["A"].rx[1].f = InFrame(FALSE, OP_TEXT, <<55>>)
  /\ conns["B"].rx[1].f = InFrame(FALSE, OP_BINARY, <<1, 2>>)
  /\ conns["A"].writes # << >>
  /\ conns["B"].writes # << >>

(***************************************************************************)
(* SpecUpgrade: one upgrade request, from the server's "upgrade" event to  *)
(* the endpoint handler                                                    *)
(***************************************************************************)
\* the response upgradeConnection writes, as the bytes of its status line
\* "HTTP/1.1 101"; the header lines after it are not modelled
UpgradeResponse == <<72, 84, 84, 80, 47, 49, 46, 49, 32, 49, 48, 49>>

\* not the program: an upgrade handler that writes no response
UpgradeConnectionSkipped(out) == out

\* upgradeConnection(req, socket): socket.write(reponseHeaders)
UpgradeConnection(out) == Append(out, UpgradeResponse)

\* "Unauthorized"
DEFAULT_UNAUTHORIZED ==
  <<85, 110, 97, 117, 116, 104, 111, 114, 105, 122, 101, 100>>

\* "Page Not Found"
DEFAULT_NOT_FOUND ==
  <<80, 97, 103, 101, 32, 78, 111, 116, 32, 70, 111, 117, 110, 100>>

\* errorResponse(message): JSON.stringify({ status: "error", message })
ErrorResponse(message) ==
  <<123, 34, 115, 116, 97, 116, 117, 115, 34, 58, 34, 101, 114, 114, 111,
    114, 34, 44, 34, 109, 101, 115, 115, 97, 103, 101, 34, 58, 34>>
    \o message \o <<34, 125>>

\* out.set(df.payload, ...) when the payload handed to sendCloseFrame is a
\* string: each character is converted to a number and stored as a byte, a
\* character that is no digit giving 0
StringAsBytes(s) ==
  [i \in 1..Len(s) |-> IF s[i] \in 48..57 THEN s[i] - 48 ELSE 0]

\* server.on("upgrade", (req, socket) => ...) is entered for a request to an
\* endpoint with transport tr
UpgradeStart(tr) ==
  /\ transport = tr
  /\ authOk = TRUE
  /\ hPc = "upgrade"
  /\ mwLog = << >>
  /\ sockLog = << >>
  /\ sockState = "open"
  /\ strBuffer = << >>
  /\ bufOffset = 0
  /\ buffer = EmptyBuffer
  /\ sockOut = << >>
  /\ rxLog = << >>
  /\ txLog = << >>

\* upgradeConnection(req, socket)
UpgradeRespond ==
  /\ hPc = "upgrade"
  /\ hPc' = "lookup"
  /\ sockOut' = UpgradeConnection(sockOut)
  /\ UNCHANGED <<transport, authOk, mwLog, sockLog, sockState, strBuffer,
                 bufOffset, buffer, rxLog, txLog>>
  /\ UNCHANGED duplexVars

\* no endpoint for the url: sendCloseFrame(socket, errorResponse(...));
\* socket.end()
EndpointMissing ==
  /\ hPc = "lookup"
  /\ hPc' = "notfound"
  /\ sockOut' = Append(sockOut,
                  SendCloseFrame(StringAsBytes(ErrorResponse(DEFAULT_NOT_FOUND))))
  /\ sockState' = "ended"
  /\ UNCHANGED <<transport, authOk, mwLog, sockLog, strBuffer, bufOffset,
                 buffer, rxLog, txLog>>
  /\ UNCHANGED duplexVars

\* endpoint(req, socket), the synchronous part of wsEndpoint's connection
\* handler: the Duplex built, the socket's listeners and the driver's listener
\* registered, the client view sealed, isAuthenticated giving proceed = ok,
\* the first middleware invoked and awaited
EndpointSetup(ok) ==
  /\ hPc = "lookup"
  /\ hPc' = "middleware"
  /\ listeners' = [s \in StreamIds |->
                     IF s = "toClient" THEN <<DriverListener>> ELSE << >>]
  /\ view' = CloseClientView(view)
  /\ sealedEver' = [sealedEver EXCEPT !["client"] = TRUE]
  /\ authOk' = ok
  /\ sockOut' =
       IF ok THEN sockOut
       ELSE Append(sockOut,
              SendCloseFrame(StringAsBytes(ErrorResponse(DEFAULT_UNAUTHORIZED))))
  /\ mwLog' = <<MiddlewareCall(1)>>
  /\ UNCHANGED <<transport, sockLog, sockState, strBuffer, bufOffset, buffer,
                 rxLog, txLog>>
  /\ UNCHANGED <<nMapped, nOps, evLog, callLog, lastOp>>

UpgradeInit ==
  /\ CodecIdle
  /\ OthersIdle
  /\ DuplexIdle
  /\ \E tr \in ServerTransports : UpgradeStart(tr)

UpgradeNext ==
  /\ UNCHANGED codecVars
  /\ OthersUnchanged
  /\ \/ UpgradeRespond
     \/ EndpointMissing
     \/ \E ok \in BOOLEAN : EndpointSetup(ok)
     \/ \E res \in MiddlewareResults : MiddlewareSettle(res)
     \/ \E f \in ConnFrames : SockData(f)
     \/ \E id \in HandlerListenerIds : HandlerAddListener(id)
     \/ \E msg \in ConnMsgs : HandlerWrite(msg)

SpecUpgrade == UpgradeInit /\ [][UpgradeNext]_vars

\* C21: when the authenticate callback rejects the credentials of the upgrade
\* request (isAuthenticated gives proceed = false), the endpoint handler is
\* never invoked for the connection.
C21_RejectedNeverHandled == ~authOk => (hPc # "handler" /\ ~HandlerActed)


\* the positions of sockOut that hold the 101 response
ResponseWrites == {i \in 1..Len(sockOut) : sockOut[i] = UpgradeResponse}

\* C28: for every upgrade request the 101 response is written to the socket
\* exactly once, as the first write, before the data handler is installed:
\* no frame is decoded from the socket and none written to it before it.
C28_ResponseOnceAndFirst ==
  /\ hPc = "upgrade" => (sockOut = << >> /\ rxLog = << >> /\ txLog = << >>)
  /\ hPc # "upgrade" => ResponseWrites = {1}
  /\ DataHandlerInstalled => (sockOut # << >> /\ sockOut[1] = UpgradeResponse)
  /\ ~DataHandlerInstalled => rxLog = << >>
  /\ \A k \in 1..Len(rxLog) : rxLog[k].out0 >= 1

\* a frame was decoded and a frame written, both after the response
C28_Witness ==
  /\ DataHandlerInstalled
  /\ rxLog # << >>
  /\ txLog # << >>
  /\ Len(sockOut) >= 2
  /\ sockOut[1] = UpgradeResponse

(***************************************************************************)
(* SpecDecode: parseDataFrame on a buffer holding one complete frame laid  *)
(* out as header byte, marker byte, 0 / 2 / 4 length bytes, optional mask  *)
(* key, payload                                                            *)
(***************************************************************************)
\* the number of length bytes that follow a marker byte in that layout
ExtBytes(marker) ==
  IF marker = LEN7_16 THEN 2 ELSE IF marker = LEN7_64 THEN 4 ELSE 0

\* the bytes of frame w: w.marker is 0 for a literal 7-bit length, else
\* LEN7_16 or LEN7_64
WireFrame(w) ==
  LET n == Len(w.payload)
      len7 == IF w.marker = 0 THEN n ELSE w.marker
      ext == IF w.marker = LEN7_16 THEN <<n \div 256, n % 256>>
             ELSE IF w.marker = LEN7_64
             THEN <<(n \div 16777216) % 256, (n \div 65536) % 256,
                    (n \div 256) % 256, n % 256>>
             ELSE << >>
      key == IF w.masked THEN w.key ELSE << >>
      body == IF w.masked
              THEN [i \in 1..n |-> Xor8(w.payload[i], w.key[((i - 1) % 4) + 1])]
              ELSE w.payload
  IN <<(IF w.fin THEN 128 ELSE 0) + w.opCode,
       (IF w.masked THEN 128 ELSE 0) + len7>> \o ext \o key \o body

\* the index after the last byte of frame w in its buffer
FrameEnd(w) ==
  1 + 1 + ExtBytes(w.marker) + (IF w.masked THEN 4 ELSE 0) + Len(w.payload)

\* the index after the last byte parseDataFrame and findPayloadLen ask data
\* for: data[0], data[1], readUInt16BE(2) / readBigUInt64BE(2), which need
\* their 2 / 8 bytes, and the two subarrays, which stop at the buffer's end
ReadEnd(data) ==
  LET first == ByteAt(data, 1) % 128
      p == ParseDataFrame(data)
      lenEnd == IF first = LEN7_16 THEN 4 ELSE IF first = LEN7_64 THEN 10 ELSE 2
      offMask == 1 + FindPayloadLen(data, 1).width
      offPay == offMask + (IF p.hasMask THEN 4 ELSE 0)
  IN Max(lenEnd, Min(offPay + p.payloadLen, Len(data)))

DecodeMarkerLens ==
  {<<0, 0>>, <<0, 1>>, <<0, 3>>, <<0, 5>>, <<0, 125>>,
   <<LEN7_16, 126>>, <<LEN7_16, 200>>, <<LEN7_16, 5>>,
   <<LEN7_64, 0>>, <<LEN7_64, 3>>, <<LEN7_64, 5>>, <<LEN7_64, 200>>}

DecodeKeys == {PeerKey, <<255, 1, 128, 64>>}

DecodeFrames ==
  {[fin |-> f, opCode |-> o, marker |-> ml[1], masked |-> k # << >>,
    key |-> k, payload |-> FillPayload(ml[2], 1)] :
     f \in BOOLEAN, o \in {OP_TEXT, OP_BINARY, OP_PING},
     ml \in DecodeMarkerLens, k \in DecodeKeys \cup {<< >>}}

DecodeInit ==
  /\ DuplexIdle
  /\ OthersIdle
  /\ ServerIdle
  /\ cPc = "wire"
  /\ cFrame \in DecodeFrames
  /\ cWire = WireFrame(cFrame)
  /\ cParsed = NoParse

\* parseDataFrame(data) on the buffer
DecodeWire ==
  /\ cPc = "wire"
  /\ cParsed' = ParseDataFrame(cWire)
  /\ cPc' = "decoded"
  /\ UNCHANGED <<cFrame, cWire>>
  /\ UNCHANGED duplexVars
  /\ UNCHANGED serverVars

DecodeNext ==
  /\ OthersUnchanged
  /\ DecodeWire

SpecDecode == DecodeInit /\ [][DecodeNext]_vars

\* C22: a 7-bit length field of 0..125 is the length, with the mask or payload
\* from byte 2; 126 gives the big-endian value of bytes 2-3, with the mask or
\* payload from byte 4; 127 gives the big-endian value of bytes 2-5, with the
\* mask or payload from byte 6.
C22_LengthAndStart ==
  cPc = "decoded" =>
    LET start == 2 + ExtBytes(cFrame.marker)
        pay == start + (IF cFrame.masked THEN 4 ELSE 0)
    IN /\ ~cParsed.err
       /\ cParsed.payloadLen = Len(cFrame.payload)
       /\ cFrame.masked => cParsed.mask = Subarray(cWire, start, start + 4)
       /\ ~cFrame.masked =>
            cParsed.payload = Subarray(cWire, pay, pay + Len(cFrame.payload))

\* C25: on a buffer holding one complete frame the decoder asks for no byte
\* at or after index 1 + 1 + length bytes + (4 if masked) + payload length,
\* and so never fails for lack of bytes.
C25_ReadsWithinFrame ==
  cPc = "decoded" =>
    /\ ~cParsed.err
    /\ ReadEnd(cWire) <= FrameEnd(cFrame)

\* C26: for every 4-byte key K and payload P, decoding the masked frame whose
\* payload bytes are P[i] XOR K[i mod 4] returns P.
C26_MaskedRoundTrip ==
  (cPc = "decoded" /\ cFrame.masked) => cParsed.payload = cFrame.payload


(***************************************************************************)
(* SpecEncode: sendDataFrame and the four send helpers on one frame.  The  *)
(* frame is kept as a description of its payload and the bytes written as  *)
(* their length, the bytes before the payload and whether the payload      *)
(* follows them unchanged.                                                 *)
(***************************************************************************)
EncodeLens == {0, 1, 125, 126, 200, 65535, 65536}

\* the longest string handed to sendTextFrame here
EncodeTextMax == 200

EncodePays ==
  {[kind |-> "fill", n |-> n, seed |-> s] : n \in EncodeLens, s \in 0..MaxSeed}
    \cup {[kind |-> "hi", n |-> 2, seed |-> 0]}

\* the payload described by pay: "hi" is the bytes of the text hi
PayloadOf(pay) ==
  IF pay.kind = "hi" THEN <<104, 105>> ELSE FillPayload(pay.n, pay.seed)

\* what is kept of the bytes out written for a frame with this payload
Written(out, payload) ==
  [len |-> Len(out),
   head |-> Subarray(out, 0, Len(out) - Len(payload)),
   payloadKept |-> Subarray(out, Len(out) - Len(payload), Len(out)) = payload]

EncodeInit ==
  /\ DuplexIdle
  /\ OthersIdle
  /\ ServerIdle
  /\ cPc = "frame"
  /\ cFrame \in [fin : BOOLEAN, opCode : KnownOpCodes, pay : EncodePays]
  /\ cWire = << >>
  /\ cParsed = NoParse

EncodeDone(pc, out, payload) ==
  /\ cPc = "frame"
  /\ cPc' = pc
  /\ cWire' = Written(out, payload)
  /\ UNCHANGED <<cFrame, cParsed>>
  /\ UNCHANGED duplexVars
  /\ UNCHANGED serverVars

\* sendDataFrame(socket, df)
EncodeData ==
  LET payload == PayloadOf(cFrame.pay)
  IN EncodeDone("data",
       SendDataFrame([fin |-> cFrame.fin, opCode |-> cFrame.opCode,
                      payload |-> payload]),
       payload)

\* sendTextFrame(socket, payload), the payload's bytes taken as the string's
\* code units
EncodeText ==
  /\ cFrame.pay.n <= EncodeTextMax
  /\ LET s == PayloadOf(cFrame.pay)
     IN EncodeDone("text", SendTextFrame(s), TextEncode(s))

\* sendBinaryFrame(socket, payload)
EncodeBinary ==
  LET payload == PayloadOf(cFrame.pay)
  IN EncodeDone("binary", SendBinaryFrame(payload), payload)

\* sendCloseFrame(socket, payload)
EncodeClose ==
  LET payload == PayloadOf(cFrame.pay)
  IN EncodeDone("close", SendCloseFrame(payload), payload)

\* sendPongFrame(socket, ping) for the PING frame with cFrame's fin bit and
\* payload
EncodePong ==
  LET payload == PayloadOf(cFrame.pay)
  IN EncodeDone("pong",
       SendPongFrame([fin |-> cFrame.fin, opCode |-> OP_PING,
                      payload |-> payload]),
       payload)

EncodeNext ==
  /\ OthersUnchanged
  /\ \/ EncodeData
     \/ EncodeText
     \/ EncodeBinary
     \/ EncodeClose
     \/ EncodePong

SpecEncode == EncodeInit /\ [][EncodeNext]_vars

\* C23: the encoder writes a payload length below 126 as one byte, a length
\* of 126..65535 as 126 and two big-endian bytes, a length of 65536 or more
\* as 127 and four big-endian bytes; the output has 1 + (1, 3 or 5) + payload
\* length bytes.
C23_LengthEncoding ==
  cPc = "data" =>
    LET n == cFrame.pay.n
        sizeBytes == Subarray(cWire.head, 1, Len(cWire.head))
    IN /\ n < LEN7_16 =>
            (cWire.len = 1 + 1 + n /\ sizeBytes = <<n>>)
       /\ (n >= LEN7_16 /\ n < LEN16_LIMIT) =>
            /\ cWire.len = 1 + 3 + n
            /\ sizeBytes = <<LEN7_16, n \div 256, n % 256>>
       /\ n >= LEN16_LIMIT =>
            /\ cWire.len = 1 + 5 + n
            /\ sizeBytes =
                 <<LEN7_64, (n \div 16777216) % 256, (n \div 65536) % 256,
                   (n \div 256) % 256, n % 256>>

\* C24: for each of the six opcodes CONTINUATION, TEXT, BINARY, CLOSE, PING
\* and PONG, either fin and every payload of n < 126 bytes the encoder writes
\* exactly the byte (fin << 7) | opcode, the byte n (mask bit clear) and the
\* payload; the final TEXT frame "hi" gives 0x81 0x02 0x68 0x69.
C24_ShortFrameBytes ==
  (cPc = "data" /\ cFrame.opCode # OP_UNDEFINED /\ cFrame.pay.n < LEN7_16) =>
    /\ cWire.head = <<(IF cFrame.fin THEN 128 ELSE 0) + cFrame.opCode,
                      cFrame.pay.n>>
    /\ cWire.payloadKept
    /\ cWire.len = 2 + cFrame.pay.n
    /\ cFrame.pay.kind = "hi" /\ cFrame.fin /\ cFrame.opCode = OP_TEXT =>
         cWire.head = <<129, 2>>

\* the final TEXT frame "hi" was written as 0x81 0x02 followed by 0x68 0x69
C24_Witness ==
  /\ cPc = "data"
  /\ cFrame = [fin |-> TRUE, opCode |-> OP_TEXT,
               pay |-> [kind |-> "hi", n |-> 2, seed |-> 0]]
  /\ PayloadOf(cFrame.pay) = <<104, 105>>
  /\ cWire = [len |-> 4, head |-> <<129, 2>>, payloadKept |-> TRUE]

\* C27: every frame written by sendTextFrame, sendBinaryFrame, sendCloseFrame
\* and sendPongFrame has the fin bit set and that operation's opcode, for
\* sendPongFrame whatever the fin bit of the PING, and the PONG carries the
\* PING's payload.
C27_HelperFrames ==
  /\ cPc = "text" => cWire.head[1] = 128 + OP_TEXT
  /\ cPc = "binary" => cWire.head[1] = 128 + OP_BINARY
  /\ cPc = "close" => cWire.head[1] = 128 + OP_CONNECTION_CLOSE
  /\ cPc = "pong" => (cWire.head[1] = 128 + OP_PONG /\ cWire.payloadKept)

(***************************************************************************)
(* SpecMapStream: a Stream s, the streams s.mapOut(f) and s.mapIn(g)       *)
(* return, listeners added to and messages written to each of them         *)
(***************************************************************************)
MaxMapped == 2        \* streams created by mapOut / mapIn / map

MapListenerIds == {1, 2}

MapMsgs == {1}

\* s.mapOut(fn) on stream s: the new stream is written to by a listener of s
StreamMapOut(s, fn) ==
  /\ nMapped < MaxMapped
  /\ nMapped' = nMapped + 1
  /\ listeners' =
       StreamAddListener(listeners, s,
         Tagged(FwdListener(MappedId(nMapped + 1), fn), "", EvCount)).listeners
  /\ lastOp' = NoOp
  /\ UNCHANGED <<view, nOps, evLog, callLog, sealedEver>>

\* s.mapIn(fn) on stream s: a listener of the new stream writes to s
StreamMapIn(s, fn) ==
  /\ nMapped < MaxMapped
  /\ nMapped' = nMapped + 1
  /\ listeners' =
       StreamAddListener(listeners, MappedId(nMapped + 1),
         Tagged(FwdListener(s, fn), "", EvCount)).listeners
  /\ lastOp' = NoOp
  /\ UNCHANGED <<view, nOps, evLog, callLog, sealedEver>>

\* the streams created so far
MappedStreams == {MappedId(k) : k \in 1..nMapped}

\* addListener on a stream returned by mapOut / mapIn
MappedAdd(m, id) ==
  /\ m \in MappedStreams
  /\ Register("addListener", "", m, AppListener(id))
  /\ UNCHANGED nMapped

\* write on a stream returned by mapOut / mapIn
MappedWrite(m, x) ==
  /\ m \in MappedStreams
  /\ StreamEvent("", m, "message", x)

\* the listener whose callbacks throw (2) is added to s alone
MapStreamNext ==
  /\ UNCHANGED codecVars
  /\ OthersUnchanged
  /\ UNCHANGED serverVars
  /\ \/ StreamMapOut("stream", "f")
     \/ StreamMapIn("stream", "g")
     \/ \E x \in MapMsgs : StreamWrite(x)
     \/ \E id \in MapListenerIds : StreamAdd(id)
     \/ \E m \in StreamIds : MappedAdd(m, 1)
     \/ \E m \in StreamIds, x \in MapMsgs : MappedWrite(m, x)

SpecMapStream == StreamInit /\ [][MapStreamNext]_vars

\* the streams that mapOut on stream s returned, and those mapIn returned
MapOutOf(s) ==
  {listeners[s][i].to : i \in {j \in 1..Len(listeners[s]) :
                                 listeners[s][j].kind = "fwd"}}

MapInOf(s) ==
  {m \in StreamIds : \E i \in 1..Len(listeners[m]) :
     listeners[m][i].kind = "fwd" /\ listeners[m][i].to = s}

\* the registrations on stream s of application listeners with onMessage
MessageListeners(s) ==
  {i \in 1..Len(listeners[s]) :
     listeners[s][i].kind = "app" /\ HasCallback(listeners[s][i], "message")}

\* every message listener of stream s is in calls, invoked with val, and no
\* callback on s is invoked with anything else
DeliveredTo(calls, s, val) ==
  /\ \A i \in MessageListeners(s) :
       \E c \in 1..Len(calls) :
         /\ calls[c].s = s
         /\ calls[c].ev = "message"
         /\ calls[c].val = val
         /\ CallOn(calls[c], listeners[s][i])
  /\ \A c \in 1..Len(calls) : calls[c].s = s => calls[c].val = val

NoneOn(calls, s) == \A c \in 1..Len(calls) : calls[c].s # s

\* the step is a write that returned, or any write, on stream s
WriteStep(s) ==
  /\ Len(evLog') = Len(evLog) + 1
  /\ evLog'[Len(evLog')].s = s
  /\ evLog'[Len(evLog')].ev = "message"

WriteReturned == ~evLog'[Len(evLog')].threw

StepValue == evLog'[Len(evLog')].val

StepCalls == SubSeq(callLog', Len(callLog) + 1, Len(callLog'))

\* C29: with s2 = s.mapOut(f), every s.write(x) that returns has delivered
\* f(x) to the message listeners of s2, and a write to s2 invokes no listener
\* of s; with s3 = s.mapIn(g), every s3.write(z) that returns has delivered
\* g(z) to the message listeners of s, and a write to s invokes no listener of
\* s3; the deliveries are made within the write call.
C29_MapOutMapIn ==
  [][/\ WriteStep("stream") =>
          /\ WriteReturned =>
               \A m \in MapOutOf("stream") :
                 DeliveredTo(StepCalls, m, ApplyFn("f", StepValue))
          /\ \A m \in MapInOf("stream") : NoneOn(StepCalls, m)
     /\ \A m \in MapOutOf("stream") :
          WriteStep(m) => NoneOn(StepCalls, "stream")
     /\ \A m \in MapInOf("stream") :
          (WriteStep(m) /\ WriteReturned) =>
            DeliveredTo(StepCalls, "stream", ApplyFn("g", StepValue))
    ]_vars

\* a write of x to s reached a listener of s2 as x + 10, and a write of z to
\* s3 reached a listener of s as z + 100
C29_Witness ==
  /\ \E c \in 1..Len(callLog) :
       /\ callLog[c].s \in MapOutOf("stream")
       /\ evLog[callLog[c].n].s = "stream"
       /\ callLog[c].val = evLog[callLog[c].n].val + 10
  /\ \E c \in 1..Len(callLog) :
       /\ callLog[c].s = "stream"
       /\ evLog[callLog[c].n].s \in MapInOf("stream")
       /\ callLog[c].val = evLog[callLog[c].n].val + 100


(***************************************************************************)
(* SpecMapDuplex: a Duplex d and d2 = d.map(inFn, outFn); listeners added  *)
(* and messages written through the views of both                          *)
(***************************************************************************)
\* not the program: a map handing outFn to mapIn and inFn to mapOut
DuplexMapSwapped(ls, k, inFn, outFn) ==
  LET withIn == StreamAddListener(ls, MappedId(k + 1),
                  Tagged(FwdListener("toServer", outFn), "", EvCount)).listeners
  IN StreamAddListener(withIn, "toClient",
       Tagged(FwdListener(MappedId(k + 2), inFn), "", EvCount)).listeners

\* new Duplex(this.toServer.mapIn(inFn), this.toClient.mapOut(outFn)): the
\* listeners after the two calls, the new Duplex's toServer being stream
\* k + 1 and its toClient stream k + 2
DuplexMapStreams(ls, k, inFn, outFn) ==
  LET withIn == StreamAddListener(ls, MappedId(k + 1),
                  Tagged(FwdListener("toServer", inFn), "", EvCount)).listeners
  IN StreamAddListener(withIn, "toClient",
       Tagged(FwdListener(MappedId(k + 2), outFn), "", EvCount)).listeners

\* d.map(inFn, outFn)
DuplexMap(inFn, outFn) ==
  /\ nMapped + 2 <= MaxMapped
  /\ nMapped' = nMapped + 2
  /\ listeners' = DuplexMapStreams(listeners, nMapped, inFn, outFn)
  /\ lastOp' = NoOp
  /\ UNCHANGED <<view, nOps, evLog, callLog, sealedEver>>

\* d.<v>.addListener(l), the view open
OpenViewAdd(v, id) ==
  /\ Register("addListener", v, ReadStream(v), AppListener(id))
  /\ UNCHANGED nMapped

\* d.<v>.write(msg), the view open
OpenViewWrite(v, x) == StreamEvent(v, WriteStream(v), "message", x)

\* the toServer and toClient streams of the Duplexes d.map returned
MapToServer == MapInOf("toServer")

MapToClient == MapOutOf("toClient")

\* d2.client.write(x) writes to d2.toServer, d2.server.write(x) to
\* d2.toClient; d2.client.addListener adds to d2.toClient,
\* d2.server.addListener to d2.toServer
MapDuplexNext ==
  /\ UNCHANGED codecVars
  /\ OthersUnchanged
  /\ UNCHANGED serverVars
  /\ \/ DuplexMap("g", "f")
     \/ \E v \in Views, id \in MapListenerIds : OpenViewAdd(v, id)
     \/ \E v \in Views, x \in MapMsgs : OpenViewWrite(v, x)
     \/ \E m \in StreamIds, id \in MapListenerIds : MappedAdd(m, id)
     \/ \E m \in StreamIds, x \in MapMsgs : MappedWrite(m, x)

SpecMapDuplex == DuplexInit /\ [][MapDuplexNext]_vars

\* C30: with d2 = d.map(inFn, outFn), every d2.client.write(x) that returns
\* has delivered inFn(x) to the message listeners registered through
\* d.server, and every d.server.write(y) that returns has delivered outFn(y)
\* to the message listeners registered through d2.client.
C30_DuplexMap ==
  [][/\ \A m \in MapToServer :
          (WriteStep(m) /\ WriteReturned) =>
            DeliveredTo(StepCalls, "toServer", ApplyFn("g", StepValue))
     /\ (WriteStep("toClient") /\ WriteReturned) =>
          \A m \in MapToClient :
            DeliveredTo(StepCalls, m, ApplyFn("f", StepValue))
    ]_vars

\* d2.client.write(x) reached a listener registered through d.server as
\* x + 100, and d.server.write(y) a listener of d2.client as y + 10
C30_Witness ==
  /\ \E c \in 1..Len(callLog) :
       /\ callLog[c].s = "toServer"
       /\ callLog[c].via = "server"
       /\ evLog[callLog[c].n].s \in MapToServer
       /\ callLog[c].val = evLog[callLog[c].n].val + 100
  /\ \E c \in 1..Len(callLog) :
       /\ callLog[c].s \in MapToClient
       /\ evLog[callLog[c].n].s = "toClient"
       /\ evLog[callLog[c].n].from = "server"
       /\ callLog[c].val = evLog[callLog[c].n].val + 10

(***************************************************************************)
(* Further properties of Stream (SpecStream)                               *)
(***************************************************************************)
\* registration x is listener object id (an object built by on() is no
\* object the caller holds)
IsObject(x, id) == x.kind = "app" /\ x.only = "" /\ x.id = id

\* C31: write invokes only onMessage callbacks, error only onError and close
\* only onClose callbacks, of listeners registered at that moment, and a
\* listener lacking the callback is skipped without failure; removeListener(l)
\* removes every registration of l, keeps the other registrations in their
\* order, invokes nothing, and changes nothing when l was never added: no
\* later event invokes a callback of l.
C31_CallbacksAndRemoval ==
  [][/\ Len(evLog') = Len(evLog) + 1 =>
          LET e == evLog'[Len(evLog')]
              regs == listeners[e.s]
          IN /\ \A c \in 1..Len(StepCalls) :
                  /\ StepCalls[c].ev = e.ev
                  /\ \E i \in 1..Len(regs) :
                       /\ CallOn(StepCalls[c], regs[i])
                       /\ HasCallback(regs[i], e.ev)
             /\ e.threw =>
                  \E i \in 1..Len(regs) :
                    HasCallback(regs[i], e.ev) /\ CallbackThrows(regs[i])
     /\ \A id \in ListenerIds :
          StreamRemove(id) =>
            LET before == listeners["stream"]
                after == listeners'["stream"]
            IN /\ \A i \in 1..Len(after) : ~IsObject(after[i], id)
               /\ after = SelectSeq(before, LAMBDA x : ~IsObject(x, id))
               /\ (\A i \in 1..Len(before) : ~IsObject(before[i], id)) =>
                    after = before
               /\ evLog' = evLog
               /\ callLog' = callLog
    ]_vars

\* a listener object was invoked for an event, and a later event was issued
\* with that object no longer registered and invoked no callback of it
C31_Witness ==
  \E n \in 1..Len(evLog), m \in 1..Len(evLog), id \in ListenerIds :
    /\ n < m
    /\ evLog[n].s = "stream"
    /\ evLog[m].s = "stream"
    /\ \E i \in 1..Len(evLog[n].regs) : IsObject(evLog[n].regs[i], id)
    /\ \E c \in 1..Len(CallsOf(n)) :
         CallsOf(n)[c].lid = id /\ CallsOf(n)[c].only = ""
    /\ \A i \in 1..Len(evLog[m].regs) : ~IsObject(evLog[m].regs[i], id)
    /\ \A c \in 1..Len(CallsOf(m)) :
         ~(CallsOf(m)[c].lid = id /\ CallsOf(m)[c].only = "")

(***************************************************************************)
(* SpecAccept: the Sec-WebSocket-Accept value upgradeConnection computes   *)
(* for a client key.  Strings are sequences of character codes; a 32-bit   *)
(* word is the pair of its high and low 16 bits.                           *)
(***************************************************************************)
\* "258EAFA5-E914-47DA-95CA-C5AB0DC85B11"
WS_GUID ==
  <<50, 53, 56, 69, 65, 70, 65, 53, 45, 69, 57, 49, 52, 45, 52, 55, 68, 65,
  45, 57, 53, 67, 65, 45, 67, 53, 65, 66, 48, 68, 67, 56, 53, 66, 49, 49>>

\* the base64 alphabet: A-Z a-z 0-9 + /
Base64Chars ==
  <<65, 66, 67, 68, 69, 70, 71, 72, 73, 74, 75, 76, 77, 78, 79, 80, 81, 82,
  83, 84, 85, 86, 87, 88, 89, 90, 97, 98, 99, 100, 101, 102, 103, 104, 105,
  106, 107, 108, 109, 110, 111, 112, 113, 114, 115, 116, 117, 118, 119,
  120, 121, 122, 48, 49, 50, 51, 52, 53, 54, 55, 56, 57, 43, 47>>

WXor(x, y) == <<BitOp("xor", x[1], y[1], 16), BitOp("xor", x[2], y[2], 16)>>

WOr(x, y) == <<BitOp("or", x[1], y[1], 16), BitOp("or", x[2], y[2], 16)>>

WAnd(x, y) ==
  <<x[1] + y[1] - BitOp("or", x[1], y[1], 16),
    x[2] + y[2] - BitOp("or", x[2], y[2], 16)>>

WNot(x) == <<65535 - x[1], 65535 - x[2]>>

\* addition modulo 2^32
WAdd(x, y) ==
  LET lo == x[2] + y[2]
      hi == x[1] + y[1] + (lo \div 65536)
  IN <<hi % 65536, lo % 65536>>

\* rotation to the left by n < 16 bits, and by 30 bits
WRotl(x, n) ==
  <<((x[1] * (2 ^ n)) % 65536) + (x[2] \div (2 ^ (16 - n))),
    ((x[2] * (2 ^ n)) % 65536) + (x[1] \div (2 ^ (16 - n)))>>

WRotl30(x) == WRotl(<<x[2], x[1]>>, 14)

\* the message followed by 0x80, zeros up to 56 modulo 64 and its length in
\* bits as 8 big-endian bytes
ShaPad(msg) ==
  LET n == Len(msg)
      zeros == (119 - (n % 64)) % 64
      bits == n * 8
  IN msg \o <<128>> \o [i \in 1..zeros |-> 0]
       \o <<0, 0, 0, 0, 0, 0, bits \div 256, bits % 256>>

\* the 16 words of block k (from 0) of the padded message
ShaBlock(p, k) ==
  [i \in 1..16 |->
     LET o == (k * 64) + ((i - 1) * 4)
     IN <<(p[o + 1] * 256) + p[o + 2], (p[o + 3] * 256) + p[o + 4]>>]

RECURSIVE ShaSchedule(_, _)
\* the block's words w extended to the first n words of the message schedule
\* (the range is halved to keep the evaluation shallow)
ShaSchedule(w, n) ==
  IF Len(w) >= n THEN w
  ELSE IF n = Len(w) + 1
  THEN Append(w,
         WRotl(WXor(WXor(w[n - 3], w[n - 8]), WXor(w[n - 14], w[n - 16])), 1))
  ELSE ShaSchedule(ShaSchedule(w, Len(w) + ((n - Len(w)) \div 2)), n)

ShaF(t, b, c, d) ==
  IF t < 20 THEN WOr(WAnd(b, c), WAnd(WNot(b), d))
  ELSE IF t < 40 THEN WXor(WXor(b, c), d)
  ELSE IF t < 60 THEN WOr(WOr(WAnd(b, c), WAnd(b, d)), WAnd(c, d))
  ELSE WXor(WXor(b, c), d)

ShaK(t) ==
  IF t < 20 THEN <<23170, 31129>>
  ELSE IF t < 40 THEN <<28377, 60321>>
  ELSE IF t < 60 THEN <<36635, 48348>>
  ELSE <<51810, 49622>>

\* round t on the working variables v = <<a, b, c, d, e>>
ShaRound(w, t, v) ==
  LET temp == WAdd(WAdd(WAdd(WAdd(WRotl(v[1], 5),
                                  ShaF(t, v[2], v[3], v[4])),
                             v[5]), ShaK(t)), w[t + 1])
  IN <<temp, v[1], WRotl30(v[2]), v[3], v[4]>>

\* the initial hash value of SHA-1
ShaH0 ==
  <<<<26437, 8961>>, <<61389, 43913>>, <<39098, 56574>>,
    <<4146, 21622>>, <<50130, 57840>>>>

\* digest(): the 20 bytes of the hash value h
ShaDigest(h) ==
  [i \in 1..20 |->
     LET half == h[((i - 1) \div 4) + 1][(((i - 1) % 4) \div 2) + 1]
     IN IF i % 2 = 1 THEN half \div 256 ELSE half % 256]

RECURSIVE Base64From(_, _)
\* digest("base64"): the bytes from index i on, three at a time, as four
\* characters, a short last group padded with "="
Base64From(b, i) ==
  IF i > Len(b) THEN << >>
  ELSE LET n == Len(b) - i + 1
           b1 == b[i]
           b2 == IF n >= 2 THEN b[i + 1] ELSE 0
           b3 == IF n >= 3 THEN b[i + 2] ELSE 0
           c(k) == Base64Chars[k + 1]
       IN <<c(b1 \div 4), c(((b1 % 4) * 16) + (b2 \div 16)),
            IF n >= 2 THEN c(((b2 % 16) * 4) + (b3 \div 64)) ELSE 61,
            IF n >= 3 THEN c(b3 % 64) ELSE 61>> \o Base64From(b, i + 3)

\* not the program: the key alone is hashed
AcceptInputNoGuid(clientKey) == clientKey

\* update(clientKey + "258EAFA5-E914-47DA-95CA-C5AB0DC85B11"): the hashed text
AcceptInput(clientKey) == clientKey \o WS_GUID

\* the key "dGhlIHNhbXBsZSBub25jZQ=="
SampleKey ==
  <<100, 71, 104, 108, 73, 72, 78, 104, 98, 88, 66, 115, 90, 83, 66, 117,
  98, 50, 53, 106, 90, 81, 61, 61>>

\* the client keys: the sample key with each base64 character for its first
AcceptKeys ==
  {[i \in 1..Len(SampleKey) |-> IF i = 1 THEN Base64Chars[k] ELSE SampleKey[i]] :
     k \in 1..Len(Base64Chars)}

\* the state of the hash at the start of block k of the padded text p, the
\* hash value so far being h
ShaStart(p, k, h) ==
  [k |-> k, t |-> 0, h |-> h, v |-> h,
   w |-> ShaSchedule(ShaBlock(p, k), 80)]

AcceptInit ==
  /\ DuplexIdle
  /\ OthersIdle
  /\ ServerIdle
  /\ cPc = "key"
  /\ cFrame \in AcceptKeys
  /\ cWire = << >>
  /\ cParsed = NoParse

\* upgradeConnection(req, socket) for the request whose sec-websocket-key
\* header is cFrame.  createHash("sha1").update(...).digest("base64") is one
\* call; its evaluation is spread over the steps AcceptUpdate, AcceptRound,
\* AcceptBlockEnd and AcceptDigest, cParsed holding the state of the hash,
\* and nothing else happens in between.
AcceptUpdate ==
  /\ cPc = "key"
  /\ cPc' = "block"
  /\ cParsed' = ShaStart(ShaPad(AcceptInput(cFrame)), 0, ShaH0)
  /\ UNCHANGED <<cFrame, cWire>>
  /\ UNCHANGED duplexVars
  /\ UNCHANGED serverVars

\* one of the 80 rounds of the block
AcceptRound ==
  /\ cPc = "block"
  /\ cParsed.t < 80
  /\ cParsed' = [cParsed EXCEPT !.t = @ + 1,
                                !.v = ShaRound(cParsed.w, cParsed.t, cParsed.v)]
  /\ UNCHANGED <<cFrame, cWire, cPc>>
  /\ UNCHANGED duplexVars
  /\ UNCHANGED serverVars

\* the end of a block: the working variables are added to the hash value, and
\* the next block starts if there is one
AcceptBlockEnd ==
  /\ cPc = "block"
  /\ cParsed.t = 80
  /\ LET p == ShaPad(AcceptInput(cFrame))
         h == [i \in 1..5 |-> WAdd(cParsed.h[i], cParsed.v[i])]
     IN IF (cParsed.k + 1) * 64 >= Len(p)
        THEN /\ cPc' = "digest"
             /\ cParsed' = [cParsed EXCEPT !.h = h]
        ELSE /\ cPc' = "block"
             /\ cParsed' = ShaStart(p, cParsed.k + 1, h)
  /\ UNCHANGED <<cFrame, cWire>>
  /\ UNCHANGED duplexVars
  /\ UNCHANGED serverVars

\* digest("base64"): cWire is the value of the Sec-WebSocket-Accept line
AcceptDigest ==
  /\ cPc = "digest"
  /\ cPc' = "accepted"
  /\ cWire' = Base64From(ShaDigest(cParsed.h), 1)
  /\ UNCHANGED <<cFrame, cParsed>>
  /\ UNCHANGED duplexVars
  /\ UNCHANGED serverVars

AcceptNext ==
  /\ OthersUnchanged
  /\ \/ AcceptUpdate
     \/ AcceptRound
     \/ AcceptBlockEnd
     \/ AcceptDigest

SpecAccept == AcceptInit /\ [][AcceptNext]_vars

\* the values of Sec-WebSocket-Accept for the sample key ("s3pP...xOo=", RFC
\* 6455 section 1.3) and for the keys "AGhl...ZQ==" and "/Ghl...ZQ==", the
\* latter two from a reference SHA-1
AcceptVectors ==
  {<<SampleKey,
      <<115, 51, 112, 80, 76, 77, 66, 105, 84, 120, 97, 81, 57, 107, 89,
      71, 122, 122, 104, 90, 82, 98, 75, 43, 120, 79, 111, 61>>>>,
   <<[SampleKey EXCEPT ![1] = 65],
      <<74, 67, 52, 84, 85, 120, 54, 86, 65, 105, 113, 107, 109, 77, 49,
      77, 75, 88, 97, 48, 106, 43, 106, 102, 98, 73, 107, 61>>>>,
   <<[SampleKey EXCEPT ![1] = 47],
      <<69, 107, 43, 110, 99, 75, 88, 115, 51, 80, 107, 107, 78, 43, 51,
      50, 111, 55, 115, 88, 54, 82, 56, 103, 97, 122, 65, 61>>>>}

\* C32: the Sec-WebSocket-Accept value of the upgrade response is
\* base64(SHA1(key + "258EAFA5-E914-47DA-95CA-C5AB0DC85B11")): 28 characters
\* ending in one "="; for the key "dGhlIHNhbXBsZSBub25jZQ==" it is
\* "s3pPLMBiTxaQ9kYGzzhZRbK+xOo=".
C32_AcceptValue ==
  cPc = "accepted" =>
    /\ Len(cWire) = 28
    /\ cWire[28] = 61
    /\ \A i \in 1..27 : \E k \in 1..64 : cWire[i] = Base64Chars[k]
    /\ \A v \in AcceptVectors : cFrame = v[1] => cWire = v[2]

\* the accept value of the sample key has been computed, over two blocks
C32_Witness ==
  /\ cPc = "accepted"
  /\ cFrame = SampleKey
  /\ cParsed.k = 1
  /\ Len(cWire) = 28

(***************************************************************************)
(* SpecServerBuf: the binary accumulator of a server connection            *)
(***************************************************************************)
ServerBufInit ==
  CodecIdle /\ OthersIdle /\ \E tr \in ServerTransports : ServerStart(tr)

ServerBufNext ==
  /\ UNCHANGED codecVars
  /\ OthersUnchanged
  /\ \/ \E f \in BufFrames : SockData(f)
     \/ MiddlewaresDone

SpecServerBuf == ServerBufInit /\ [][ServerBufNext]_vars

\* n is 2048 times a power of two
IsCapacity(n) == \E k \in 0..16 : n = INIT_BUFFER_SIZE * (2 ^ k)

\* byte i (from 1) of the binary buffer
BufferByte(buf, i) == IF i <= Len(buf.data) THEN buf.data[i] ELSE 0

\* the step handles a BINARY frame without throwing
BinaryHandled ==
  /\ Len(rxLog') = Len(rxLog) + 1
  /\ rxLog'[Len(rxLog')].opCode = OP_BINARY
  /\ rxLog'[Len(rxLog')].st1 # "crashed"

\* C33: the capacity of the binary buffer is 2048 times a power of two and
\* never decreases, and 0 <= offset <= capacity after every frame; a BINARY
\* fragment that fits leaves the capacity alone, one that does not makes it
\* the first doubling that holds offset + payload length, and the bytes
\* [0, offset) of the earlier fragments stay where they were.
C33_BufferGrowth ==
  [][/\ IsCapacity(buffer.size)
     /\ IsCapacity(buffer'.size)
     /\ buffer'.size >= buffer.size
     /\ bufOffset' >= 0
     /\ bufOffset' <= buffer'.size
     /\ BinaryHandled =>
          LET need == bufOffset + Len(rxLog'[Len(rxLog')].payload)
          IN /\ need <= buffer.size => buffer'.size = buffer.size
             /\ need > buffer.size =>
                  /\ buffer'.size >= need
                  /\ buffer'.size \div 2 < need
             /\ \A i \in 1..bufOffset :
                  BufferByte(buffer', i) = BufferByte(buffer, i)
             /\ ~rxLog'[Len(rxLog')].fin => bufOffset' = need]_vars

\* a fragment arrived that needed two doublings while an earlier fragment of
\* the message was held, and that fragment's bytes are still in place
C33_Witness ==
  /\ Len(rxLog) = 2
  /\ rxLog[1].payload = <<1, 2>>
  /\ buffer.size = 4 * INIT_BUFFER_SIZE
  /\ bufOffset > INIT_BUFFER_SIZE
  /\ SubSeq(buffer.data, 1, 2) = <<1, 2>>

(***************************************************************************)
(* SpecServerChunks: chunks of two frames and CONTINUATION frames          *)
(***************************************************************************)
ServerChunksInit ==
  CodecIdle /\ OthersIdle /\ \E tr \in CtlTransports : ServerStart(tr)

ServerChunksNext ==
  /\ UNCHANGED codecVars
  /\ OthersUnchanged
  /\ \/ \E f \in ChunkFrames : SockData(f)
     \/ MiddlewaresDone

SpecServerChunks == ServerChunksInit /\ [][ServerChunksNext]_vars

\* what the data handler does with the first frame alone of received chunk k
FirstFrameAlone(k) ==
  LET r == rxLog[k]
  IN OnData(transport, ParsedChunk[InFrame(r.fin, r.opCode, r.payload)],
            r.acc0[1], r.acc0[2], r.acc0[3])

\* C34: a chunk is decoded once, from its byte 0, and has the effect of its
\* first frame alone: a chunk holding two frames gives at most one Duplex
\* message and one socket write, those of its first frame, and leaves the
\* accumulators as its first frame leaves them; the second frame gives no
\* message, no write, no change, and nothing of it is kept.
C34_OneFramePerChunk ==
  \A k \in 1..Len(rxLog) :
    LET r == rxLog[k]
        e == FirstFrameAlone(k)
    IN r.rest # << >> =>
         /\ r.acc1 = <<e.str, e.off, e.buf>>
         /\ r.ev1 - r.ev0 = Len(e.write)
         /\ r.ev1 - r.ev0 <= 1
         /\ e.write # << >> => evLog[r.ev1].val = e.write[1]
         /\ r.out1 - r.out0 = Len(e.out)
         /\ r.out1 - r.out0 <= 1
         /\ e.out # << >> => sockOut[r.out1] = e.out[1]
         /\ r.st1 = r.st0
         /\ r.fin /\ r.opCode = OP_TEXT => r.acc1[1] = << >>
         /\ r.fin /\ r.opCode = OP_BINARY => r.acc1[2] = 0
         /\ ~r.fin /\ r.opCode = OP_TEXT
              => r.ev1 = r.ev0 /\ r.acc1[1] = r.acc0[1] \o TextDecode(r.payload)
         /\ ~r.fin /\ r.opCode = OP_BINARY
              => r.ev1 = r.ev0 /\ r.acc1[2] = r.acc0[2] + Len(r.payload)

\* a chunk holding both fragments of a text message left the first fragment
\* in the text accumulator and gave no message, a chunk holding two text
\* messages gave one message, and a chunk holding a PING and a text message
\* gave a PONG and no message
C34_Witness ==
  \E i, j, k \in 1..Len(rxLog) :
    /\ rxLog[i].rest # << >> /\ ~rxLog[i].fin /\ rxLog[i].opCode = OP_TEXT
    /\ rxLog[i].acc1[1] # << >> /\ rxLog[i].ev1 = rxLog[i].ev0
    /\ rxLog[j].rest # << >> /\ rxLog[j].fin /\ rxLog[j].opCode = OP_TEXT
    /\ rxLog[j].ev1 = rxLog[j].ev0 + 1
    /\ rxLog[k].rest # << >> /\ rxLog[k].opCode = OP_PING
    /\ rxLog[k].out1 = rxLog[k].out0 + 1 /\ rxLog[k].ev1 = rxLog[k].ev0

\* C39: a CONTINUATION frame is parsed as one and the driver does nothing
\* with it: no change of the text accumulator, the binary buffer or the
\* offset, no Duplex message, no socket write, no socket.end.  A text
\* fragment held before it is still held after it and is put before the
\* payload of the next TEXT frame: TEXT(fin=false) then CONTINUATION(fin=true)
\* gives no message, and the next TEXT frame with fin gives the message of
\* the fragment followed by that frame's payload.
C39_ContinuationIgnored ==
  \A k \in 1..Len(rxLog) :
    LET r == rxLog[k]
    IN /\ r.opCode = OP_CONTINUATION =>
            /\ r.parsed = OP_CONTINUATION
            /\ r.acc1 = r.acc0
            /\ r.ev1 = r.ev0
            /\ r.out1 = r.out0
            /\ r.st1 = r.st0
       /\ (k > 1 /\ rxLog[k - 1].opCode = OP_CONTINUATION /\ r.opCode = OP_TEXT) =>
            /\ r.acc0 = rxLog[k - 1].acc0
            /\ ~r.fin => r.ev1 = r.ev0 /\ r.acc1[1] = TextAt(k)
            /\ (r.fin /\ ~DecodeText(transport, TextAt(k)).err) =>
                 /\ r.ev1 = r.ev0 + 1
                 /\ evLog[r.ev1].val = DecodeText(transport, TextAt(k)).val
                 /\ r.acc1[1] = << >>

\* TEXT(fin=false) "7", then CONTINUATION(fin=true), then TEXT(fin=true) "7"
\* arrived on a JSON connection: the only message is 77, written during the
\* third frame
C39_Witness ==
  /\ transport = "json"
  /\ Len(rxLog) = 3
  /\ rxLog[1].opCode = OP_TEXT /\ ~rxLog[1].fin /\ rxLog[1].rest = << >>
  /\ rxLog[2].opCode = OP_CONTINUATION /\ rxLog[2].fin
  /\ rxLog[3].opCode = OP_TEXT /\ rxLog[3].fin /\ rxLog[3].rest = << >>
  /\ Len(evLog) = 1
  /\ rxLog[3].ev1 = 1
  /\ evLog[1].val = JSONParse(<<55, 55>>).val
  /\ ~JSONParse(<<55, 55>>).err

\* C40: once the driver has processed a CLOSE frame it writes nothing more
\* to the connection's Duplex: a frame arriving after it gives no message.
C40_NothingAfterClose ==
  \A k \in 1..Len(rxLog) : \A j \in 1..Len(rxLog) :
    (k < j /\ rxLog[k].opCode = OP_CONNECTION_CLOSE) =>
      rxLog[j].ev1 = rxLog[j].ev0

(***************************************************************************)
(* SpecHeldView: the view objects read from duplex.server and              *)
(* duplex.client when the Duplex was built, used before and after the      *)
(* seals                                                                   *)
(***************************************************************************)
\* who called: the view object of v held since before any seal
HeldTag(v) == IF v = "server" THEN "heldServer" ELSE "heldClient"

\* not the program: a held view object that is sealed with the property
HeldEventSealed(v, ev, val) == ViewEvent(v, ev, val)

\* write / error / close of the object built by the constructor: arrow
\* functions calling this.toClient (this.toServer), whatever this.server
\* (this.client) holds now
HeldEvent(v, ev, val) == StreamEvent(HeldTag(v), WriteStream(v), ev, val)

\* addListener of that object
HeldAddListener(v, id) ==
  /\ Register("addListener", HeldTag(v), ReadStream(v), AppListener(id))
  /\ UNCHANGED nMapped

\* on(eventType, fn) of that object
HeldOn(v, ev, id) ==
  /\ Register("on", HeldTag(v), ReadStream(v), OnListener(id, ev))
  /\ UNCHANGED nMapped

HeldViewInit == DuplexIdle /\ CodecIdle /\ ServerIdle /\ OthersIdle

HeldListenerIds == {1}

HeldViewNext ==
  /\ UNCHANGED codecVars
  /\ OthersUnchanged
  /\ UNCHANGED serverVars
  /\ \/ \E v \in Views, ev \in EventKinds, x \in DuplexMsgs :
          HeldEvent(v, ev, EventVal(ev, x))
     \/ \E v \in Views, id \in HeldListenerIds : HeldAddListener(v, id)
     \/ \E v \in Views, ev \in DuplexOnKinds, id \in OnFnIds : HeldOn(v, ev, id)
     \/ CloseServer
     \/ CloseClient

SpecHeldView == HeldViewInit /\ [][HeldViewNext]_vars

\* C35: a view object read before closeServer() / closeClient() works after
\* the seal as before it: no call through it throws, its write / error /
\* close issue the event on the stream of the opposite view and invoke the
\* callbacks registered there, its addListener / on append a registration to
\* its own read stream.  Sealing issues no event, invokes no callback and
\* leaves the listener lists of toServer and toClient as they are.
C35_HeldViewSurvivesSeal ==
  [][/\ ~lastOp'.closed
     /\ view' # view =>
          /\ listeners' = listeners
          /\ evLog' = evLog
          /\ callLog' = callLog
     /\ \A v \in Views, ev \in EventKinds, x \in DuplexMsgs :
          HeldEvent(v, ev, EventVal(ev, x)) =>
            LET e == evLog'[Len(evLog')]
                calls == SubSeq(callLog', Len(callLog) + 1, Len(callLog'))
                expected == WithCallback(listeners[WriteStream(v)], ev)
            IN /\ Len(evLog') = Len(evLog) + 1
               /\ e.s = WriteStream(v)
               /\ e.ev = ev
               /\ InOrderPrefix(calls, expected)
               /\ ~e.threw => Len(calls) = Len(expected)
               /\ listeners' = listeners
     /\ \A v \in Views, id \in HeldListenerIds :
          HeldAddListener(v, id) =>
            /\ Len(listeners'[ReadStream(v)]) = Len(listeners[ReadStream(v)]) + 1
            /\ listeners'[WriteStream(v)] = listeners[WriteStream(v)]
            /\ evLog' = evLog
     /\ \A v \in Views, ev \in DuplexOnKinds, id \in OnFnIds :
          HeldOn(v, ev, id) =>
            /\ Len(listeners'[ReadStream(v)]) = Len(listeners[ReadStream(v)]) + 1
            /\ listeners'[WriteStream(v)] = listeners[WriteStream(v)]
            /\ evLog' = evLog]_vars

\* both views were sealed, then a listener was added through the held client
\* view and a write through the held server view invoked its callback
C35_Witness ==
  /\ sealedEver["server"]
  /\ sealedEver["client"]
  /\ \E n \in 1..Len(evLog) :
       /\ evLog[n].from = HeldTag("server")
       /\ evLog[n].sealed = Views
       /\ \E i \in 1..Len(callLog) :
            /\ callLog[i].n = n
            /\ callLog[i].via = HeldTag("client")
            /\ callLog[i].at >= 0
       /\ \E j \in 1..Len(evLog[n].regs) : evLog[n].regs[j].via = HeldTag("client")

(***************************************************************************)
(* SpecMapEvents: error and close events on mapped streams                 *)
(***************************************************************************)
\* error(err) / close() on a stream returned by mapOut / mapIn
MappedEvent(m, ev, x) ==
  /\ m \in MappedStreams
  /\ ev \in {"error", "close"}
  /\ StreamEvent("", m, ev, EventVal(ev, x))

\* the listeners are objects with the three callbacks, none of which throws
MapEventsNext ==
  /\ UNCHANGED codecVars
  /\ OthersUnchanged
  /\ UNCHANGED serverVars
  /\ \/ StreamMapOut("stream", "f")
     \/ StreamMapIn("stream", "g")
     \/ StreamAdd(1)
     \/ \E m \in StreamIds : MappedAdd(m, 1)
     \/ \E x \in MapMsgs : StreamError(x)
     \/ StreamClose
     \/ \E m \in StreamIds, ev \in {"error", "close"}, x \in MapMsgs :
          MappedEvent(m, ev, x)

SpecMapEvents == StreamInit /\ [][MapEventsNext]_vars

\* C36: an error or close event passes through a mapped stream and nothing
\* is thrown: on a stream holding the listener of mapOut or mapIn the event
\* returns, and the listeners registered before it on the stream the listener
\* forwards to have their callback of that kind invoked.
C36_ErrorClosePassThrough ==
  \A n \in 1..Len(evLog) :
    LET e == evLog[n]
    IN e.ev \in {"error", "close"} =>
         /\ ~e.threw
         /\ \A j \in 1..Len(e.regs) :
              e.regs[j].kind = "fwd" =>
                \A i \in 1..Len(listeners[e.regs[j].to]) :
                  LET l == listeners[e.regs[j].to][i]
                  IN (l.kind = "app" /\ l.at < n /\ HasCallback(l, e.ev)) =>
                       \E c \in 1..Len(callLog) :
                         /\ callLog[c].n = n
                         /\ callLog[c].s = e.regs[j].to
                         /\ callLog[c].ev = e.ev
                         /\ CallOn(callLog[c], l)

(***************************************************************************)
(* SpecReentrant: callbacks that add and remove listeners of the stream    *)
(* whose event is being dispatched                                         *)
(***************************************************************************)
\* the listener a removing callback removes, and the one an adding callback
\* adds
RemovedListener == AppListener(1)

AddedListener == AppListener(7)

\* a listener whose callbacks call removeListener(RemovedListener) (act =
\* "remove"), addListener(AddedListener) (act = "add") or the one and then
\* the other (act = "both") on the stream
ActingListener(id, act) == [AppListener(id) EXCEPT !.fn = act]

Removes(l) == l.kind = "app" /\ l.fn \in {"remove", "both"}

Adds(l) == l.kind = "app" /\ l.fn \in {"add", "both"}

\* this.listeners after the callback of l ran for event ctx.n
AfterCallback(ls, s, l, ctx) ==
  LET ls1 == IF Removes(l) THEN StreamRemoveListener(ls, s, RemovedListener)
             ELSE ls
  IN IF Adds(l)
     THEN StreamAddListener(ls1, s, Tagged(AddedListener, "", ctx.n)).listeners
     ELSE ls1

RECURSIVE ForEachLive(_, _, _, _, _, _, _, _, _)
\* not the program: a loop reading this.listeners and its length anew at
\* every index
ForEachLive(ls, arr, len, same, k, s, ev, val, ctx) ==
  IF k > Len(ls[s]) THEN [calls |-> << >>, threw |-> FALSE, listeners |-> ls]
  ELSE LET l == ls[s][k]
       IN IF ~HasCallback(l, ev)
          THEN ForEachLive(ls, arr, len, same, k + 1, s, ev, val, ctx)
          ELSE IF CallbackThrows(l)
          THEN [calls |-> <<Call(l, s, ev, val, ctx)>>, threw |-> TRUE,
                listeners |-> ls]
          ELSE LET rest == ForEachLive(AfterCallback(ls, s, l, ctx), arr, len,
                                       same, k + 1, s, ev, val, ctx)
               IN [rest EXCEPT !.calls = <<Call(l, s, ev, val, ctx)>> \o @]

RECURSIVE ForEach(_, _, _, _, _, _, _, _, _)
\* this.listeners.forEach(...) of write / error / close from index k on: arr
\* is the array forEach was called on, len its length at that moment, ls[s]
\* the array this.listeners holds now, which is the same object as arr while
\* `same` holds.  addListener pushes onto this.listeners, removeListener
\* assigns a new array to it; forEach reads arr[k] for k up to len.
ForEach(ls, arr, len, same, k, s, ev, val, ctx) ==
  IF k > len THEN [calls |-> << >>, threw |-> FALSE, listeners |-> ls]
  ELSE LET l == arr[k]
       IN IF ~HasCallback(l, ev)
          THEN ForEach(ls, arr, len, same, k + 1, s, ev, val, ctx)
          ELSE IF CallbackThrows(l)
          THEN [calls |-> <<Call(l, s, ev, val, ctx)>>, threw |-> TRUE,
                listeners |-> ls]
          ELSE LET ls1 == AfterCallback(ls, s, l, ctx)
                   same1 == same /\ ~Removes(l)
                   arr1 == IF same1 THEN ls1[s] ELSE arr
                   rest == ForEach(ls1, arr1, len, same1, k + 1, s, ev, val, ctx)
               IN [rest EXCEPT !.calls = <<Call(l, s, ev, val, ctx)>> \o @]

\* stream.write(msg) / .error(err) / .close() with such listeners registered
ReentrantEvent(ev, val) ==
  /\ Step
  /\ LET ctx == [n |-> EvCount + 1, from |-> ""]
         r == ForEach(listeners, listeners["stream"], Len(listeners["stream"]),
                      TRUE, 1, "stream", ev, val, ctx)
     IN /\ listeners' = r.listeners
        /\ callLog' = callLog \o r.calls
        /\ evLog' = Append(evLog, [s |-> "stream", ev |-> ev, val |-> val,
                                   from |-> "", threw |-> r.threw,
                                   regs |-> listeners["stream"],
                                   sealed |-> {w \in Views : sealedEver[w]}])
  /\ lastOp' = NoOp
  /\ UNCHANGED <<view, nMapped, sealedEver>>

\* stream.addListener(l) for a listener with acting callbacks
ActingAdd(id, act) ==
  /\ Register("addListener", "", "stream", ActingListener(id, act))
  /\ UNCHANGED nMapped

ReentrantNext ==
  /\ UNCHANGED codecVars
  /\ OthersUnchanged
  /\ UNCHANGED serverVars
  /\ \/ StreamAdd(1)
     \/ ActingAdd(4, "remove")
     \/ ActingAdd(10, "add")
     \/ ActingAdd(13, "both")
     \/ \E ev \in EventKinds : ReentrantEvent(ev, EventVal(ev, 1))

SpecReentrant == StreamInit /\ [][ReentrantNext]_vars

\* C37: the dispatch of an event invokes exactly the listeners registered
\* when the event began, in order.  A listener removed by a callback during
\* the dispatch is still invoked for that event when it was registered after
\* the remover, and is registered for no later event; a listener added by a
\* callback during the dispatch is not invoked for that event and is
\* registered for the later ones.
C37_DispatchSnapshot ==
  \A n \in 1..Len(evLog) :
    LET e == evLog[n]
        regsAfter == IF n < Len(evLog) THEN evLog[n + 1].regs
                     ELSE listeners["stream"]
    IN /\ InOrderPrefix(CallsOf(n), WithCallback(e.regs, e.ev))
       /\ Len(CallsOf(n)) = Len(WithCallback(e.regs, e.ev))
       /\ \A i \in 1..Len(CallsOf(n)) : CallsOf(n)[i].at < n
       /\ (\E j \in 1..Len(e.regs) : Removes(e.regs[j]) /\ HasCallback(e.regs[j], e.ev)) =>
            \A m \in (n + 1)..Len(evLog) : \A j \in 1..Len(evLog[m].regs) :
              SameObject(evLog[m].regs[j], RemovedListener) =>
                evLog[m].regs[j].at >= n
       /\ \A j \in 1..Len(e.regs) :
            (Adds(e.regs[j]) /\ HasCallback(e.regs[j], e.ev)) =>
              \E i \in 1..Len(regsAfter) :
                SameObject(regsAfter[i], AddedListener) /\ regsAfter[i].at = n

\* during one event a callback removed a listener registered after it, which
\* was still invoked, and a callback added a listener, which was not; the
\* next event invoked the added listener and not the removed one
C37_Witness ==
  \E n \in 1..Len(evLog) :
    /\ n < Len(evLog)
    /\ \E i, j \in 1..Len(evLog[n].regs) :
         /\ i < j
         /\ Removes(evLog[n].regs[i])
         /\ SameObject(evLog[n].regs[j], RemovedListener)
         /\ HasCallback(evLog[n].regs[j], evLog[n].ev)
    /\ \E i \in 1..Len(evLog[n].regs) : Adds(evLog[n].regs[i])
    /\ \E c \in 1..Len(callLog) :
         callLog[c].n = n /\ callLog[c].lid = RemovedListener.id
    /\ \A c \in 1..Len(callLog) :
         callLog[c].n = n => callLog[c].lid # AddedListener.id
    /\ \E c \in 1..Len(callLog) :
         callLog[c].n = n + 1 /\ callLog[c].lid = AddedListener.id
    /\ \A c \in 1..Len(callLog) :
         callLog[c].n = n + 1 => callLog[c].lid # RemovedListener.id

\* C38: a message completed before the handler registered a listener is
\* written to the inbound Stream when its last frame is processed, reaching
\* the listeners registered by then, and is never delivered later: every
\* callback invocation for an inbound message is made during its event, with
\* that message, on a listener registered before the event, and registering
\* a listener invokes nothing.
C38_NoQueuedDelivery ==
  /\ \A n \in 1..Len(evLog) :
       (evLog[n].from = "driver" /\ evLog[n].ev = "message") =>
         /\ InOrderPrefix(CallsOf(n), WithCallback(evLog[n].regs, "message"))
         /\ \A i \in 1..Len(CallsOf(n)) :
              /\ CallsOf(n)[i].val = evLog[n].val
              /\ CallsOf(n)[i].at < n
  /\ \A k \in 1..Len(rxLog) :
       /\ rxLog[k].ev1 - rxLog[k].ev0 <= 1
       /\ (rxLog[k].opCode = OP_TEXT /\ rxLog[k].fin
             /\ ~DecodeText(transport, TextAt(k)).err) =>
            /\ rxLog[k].ev1 = rxLog[k].ev0 + 1
            /\ evLog[rxLog[k].ev1].val = DecodeText(transport, TextAt(k)).val
  /\ \A i \in 1..Len(callLog) :
       callLog[i].via = "server" =>
         /\ callLog[i].n \in 1..Len(evLog)
         /\ callLog[i].at < callLog[i].n

\* a message arrived before the handler had registered a listener and
\* reached no handler listener; the handler then registered a listener, which
\* a later message reached and the earlier one did not
C38_Witness ==
  \E n, m \in 1..Len(evLog) :
    /\ n < m
    /\ evLog[n].from = "driver" /\ evLog[n].ev = "message"
    /\ evLog[m].from = "driver" /\ evLog[m].ev = "message"
    /\ \A j \in 1..Len(evLog[n].regs) : evLog[n].regs[j].via # "server"
    /\ \A i \in 1..Len(callLog) : callLog[i].n = n => callLog[i].via # "server"
    /\ \E i \in 1..Len(callLog) :
         /\ callLog[i].n = m
         /\ callLog[i].via = "server"
         /\ callLog[i].at >= n
    /\ hPc = "handler"

====
